---- MODULE Spec2Model ----
(***************************************************************************)
(* SWEN AI routing engine (src/ai-engine/main.py): the approval-gated      *)
(* placement workflow of AIRoutingEngine.                                  *)
(*                                                                         *)
(* Money.  cost_per_hour, the simulated costs and the savings thresholds   *)
(* are in milli-dollars per hour.  A workload cost (the result of          *)
(* _calculate_workload_cost) is in units of 1/CostScale milli-dollar, so   *)
(* that both discounts (tenths, thousandths) stay exact in integers.       *)
(***************************************************************************)
EXTENDS Integers, Sequences, FiniteSets, TLC

\* ------------------------------------------------------------------ bounds
MaxDeployments == 1
MaxDecisions == 2
MaxCollect == 1
MaxMonitor == 1
\* executions of _deploy_workload and decisions in a run that starts with one
\* workload deployed
MaxDriftDeployments == 2
MaxDriftDecisions == 3
MaxLoopIterations == 3
MaxBurstDeployments == 2
MaxBurstDecisions == 4

\* ------------------------------------------------------- program constants
DefaultAwsCost == 50
DefaultAlibabaCost == 500
DefaultApprovalThreshold == 10
DefaultCostThreshold == 50000
SpotDiscountTenths == 6
CreditsDiscountCap == 200
CreditsDivisor == 1000
CoresPerInstance == 2
DeployCpuCores == 4
TelemetryCap == 1000
SwitchSavingsThreshold == 10

CostScale == 10 * CreditsDivisor

\* ------------------------------------------------------------ input domains
\* ids of the workloads submitted, and an id that is never submitted
WorkloadIds == {"w1"}
UnknownIds == {"w2"}
Providers == {"aws", "alibaba"}
\* dict order of the provider states: 'aws' is inserted first
ProviderOrder == <<"aws", "alibaba">>
CpuChoices == {1, 4}
\* <<aws, alibaba>> cost_per_hour pairs an operator may set
CostScenarios == {<<50, 500>>, <<200000, 100000>>, <<0, 5>>}
\* cost_threshold values an operator may pass to enable_auto_deploy
CostThresholdChoices == {DefaultCostThreshold}

VARIABLES
    auto_deploy_enabled,    \* self.auto_deploy_enabled
    approval_threshold,     \* self.approval_threshold
    cost_threshold,         \* self.cost_threshold
    aws_simulated_cost,     \* self.aws_simulated_cost
    alibaba_simulated_cost, \* self.alibaba_simulated_cost
    alert_webhook_url,      \* self.alert_webhook_url: "unset" | "empty" | "set"
    ml_model,               \* self.ml_model
    telemetry_data,         \* self.telemetry_data
    collected,              \* iterations of _collect_telemetry so far
    monitored,              \* iterations of _continuous_monitoring counted so far
    decision_history,       \* self.decision_history
    pending_workloads,      \* self.pending_workloads
    deployments,            \* executions of _deploy_workload started by approve_workload
    main_tf,                \* desired_capacity literal of each module block of main.tf
    placement_result,       \* outcome of the last direct call of calculate_optimal_placement
    threads                 \* handlers and threads followed statement by statement

vars == <<auto_deploy_enabled, approval_threshold, cost_threshold, aws_simulated_cost,
          alibaba_simulated_cost, alert_webhook_url, ml_model, telemetry_data, collected,
          monitored, decision_history, pending_workloads, deployments, main_tf,
          placement_result, threads>>

config_vars == <<auto_deploy_enabled, approval_threshold, cost_threshold,
                 aws_simulated_cost, alibaba_simulated_cost, alert_webhook_url, ml_model>>

Max(a, b) == IF a >= b THEN a ELSE b
Min(a, b) == IF a <= b THEN a ELSE b
Abs(a) == IF a >= 0 THEN a ELSE -a

\* ------------------------------------------------------------ provider state
_get_aws_cost == aws_simulated_cost
_get_alibaba_cost == alibaba_simulated_cost

_get_default_provider_states ==
    [p \in Providers |->
        IF p = "aws"
        THEN [region |-> "us-east-1", cost_per_hour |-> aws_simulated_cost,
              spot_available |-> TRUE, credits_available |-> 500]
        ELSE [region |-> "us-west-1", cost_per_hour |-> alibaba_simulated_cost,
              spot_available |-> TRUE, credits_available |-> 800]]

\* 'timestamp' of a new telemetry record: time.time(), kept as the position of
\* the record in the order of collection
next_timestamp ==
    IF telemetry_data = <<>> THEN 1 ELSE telemetry_data[Len(telemetry_data)].timestamp + 1

\* One telemetry record of _fetch_telemetry_data: the timestamp and the
\* 'providers' dict, with the simulated costs read at collection time.
_fetch_telemetry_data ==
    [timestamp |-> next_timestamp,
     providers |->
        [p \in Providers |->
            IF p = "aws"
            THEN [region |-> "us-east-1", cost_per_hour |-> aws_simulated_cost,
                  spot_available |-> TRUE, credits_available |-> 500]
            ELSE [region |-> "us-west-1", cost_per_hour |-> alibaba_simulated_cost,
                  spot_available |-> TRUE, credits_available |-> 200]]]

\* provider states that fall back to the defaults when the latest record has none
_get_current_provider_states_or_default ==
    IF telemetry_data = <<>> \/ DOMAIN telemetry_data[Len(telemetry_data)].providers = {}
    THEN _get_default_provider_states
    ELSE telemetry_data[Len(telemetry_data)].providers

_get_current_provider_states ==
    IF telemetry_data = <<>>
    THEN _get_default_provider_states
    ELSE telemetry_data[Len(telemetry_data)].providers

\* ------------------------------------------------------------- cost and score
required_instances(workload) == Max(1, workload.cpu_cores \div CoresPerInstance)

\* _calculate_workload_cost that takes the credits discount without its cap
_calculate_workload_cost_uncapped(workload, provider_data) ==
    LET base == provider_data.cost_per_hour * required_instances(workload)
        spot == IF provider_data.spot_available THEN 10 - SpotDiscountTenths ELSE 10
        credits == IF provider_data.credits_available > 0
                   THEN CreditsDivisor - provider_data.credits_available
                   ELSE CreditsDivisor
    IN  base * spot * credits

_calculate_workload_cost(workload, provider_data) ==
    LET base == provider_data.cost_per_hour * required_instances(workload)
        spot == IF provider_data.spot_available THEN 10 - SpotDiscountTenths ELSE 10
        credits == IF provider_data.credits_available > 0
                   THEN CreditsDivisor - Min(CreditsDiscountCap, provider_data.credits_available)
                   ELSE CreditsDivisor
    IN  base * spot * credits

\* the cost gate that lets every workload through
_check_cost_threshold_open(workload_cost) == TRUE

_check_cost_threshold(workload_cost) ==
    ~(workload_cost > cost_threshold * CostScale)

\* self.ml_model: None, a RandomForestClassifier that was never fitted (no
\* classes_), or a fitted one.  The features of a prediction are the workload's
\* fields and provider_data.get('aws_cost', 0.05) ..., keys that no provider
\* record holds: the same features, so the same prediction, for every provider.
\* predict_proba gives, per cpu_cores, the class probabilities in thousandths
\* (class 0 aws, class 1 alibaba; one entry when one class was seen in training).
NoModel == [kind |-> "none"]
UntrainedModel == [kind |-> "untrained"]
TrainedModel(predict_proba) == [kind |-> "trained", predict_proba |-> predict_proba]

\* the prediction with nothing in place of the neutral value: an unfitted model
\* scores 0, a failed prediction scores above 1
_predict_optimal_provider_no_fallback(workload, provider_data) ==
    IF ml_model.kind = "none" THEN 500
    ELSE IF ml_model.kind = "untrained" THEN 0
    ELSE LET prediction == ml_model.predict_proba[workload.cpu_cores]
         IN  IF Len(prediction) < 2 THEN 2000 ELSE prediction[2]

\* the prediction, in thousandths: 0.5 without a model, with an unfitted one,
\* and when prediction[1] raises (caught by the except); else prediction[1]
_predict_optimal_provider(workload, provider_data) ==
    IF ml_model.kind = "none" THEN 500
    ELSE IF ml_model.kind = "untrained" THEN 500
    ELSE LET prediction == ml_model.predict_proba[workload.cpu_cores]
         IN  IF Len(prediction) < 2 THEN 500 ELSE prediction[2]

\* a combined score whose cost term grows with the cost
combined_score_rising(cost, ml) == [den |-> 50 * CostScale - cost, ml |-> ml]

\* combined score 0.7 * 1/(cost + 0.001) + 0.3 * ml, kept as its two terms
combined_score(cost, ml) == [den |-> cost + CostScale, ml |-> ml]

\* s > t for two combined scores, exactly
ScoreGreater(s, t) ==
    IF s.ml = t.ml
    THEN s.den < t.den
    ELSE 7 * CostScale * 1000 * 1000 * (t.den - s.den) > 3 * (t.ml - s.ml) * s.den * t.den

\* a selection that takes the first entry in dict order, whatever its score
BestOf_first_entry(scores) ==
    LET present == {i \in 1..Len(ProviderOrder) : ProviderOrder[i] \in DOMAIN scores}
    IN  ProviderOrder[CHOOSE i \in present : \A j \in present : i <= j]

\* max(combined_scores.items(), key=...): the first maximal entry in dict order
BestOf(scores) ==
    LET present == {i \in 1..Len(ProviderOrder) : ProviderOrder[i] \in DOMAIN scores}
        better(i) == \A j \in present :
                        /\ ~ScoreGreater(scores[ProviderOrder[j]], scores[ProviderOrder[i]])
                        /\ (j < i => ScoreGreater(scores[ProviderOrder[i]], scores[ProviderOrder[j]]))
    IN  ProviderOrder[CHOOSE i \in present : better(i)]

\* max(other_costs)
MaxOf(values) == CHOOSE v \in values : \A u \in values : u <= v

\* cost_confidence, a fraction: 0.5, or min(1.0, cost_savings / estimated_cost * 2)
\* when there are other providers (a division the caller has seen not to raise)
cost_confidence(estimated_cost, other_costs) ==
    IF other_costs = {}
    THEN [num |-> 1, den |-> 2]
    ELSE LET cost_savings == MaxOf(other_costs) - estimated_cost
         IN  IF cost_savings * 2 >= estimated_cost
             THEN [num |-> 1, den |-> 1]
             ELSE [num |-> cost_savings * 2, den |-> estimated_cost]

\* confidence_score = 0.7 * cost_confidence + 0.3 * ml_confidence, a fraction
\* (ml_confidence is in thousandths)
confidence_score(cost_conf, ml_confidence) ==
    [num |-> 7 * 1000 * cost_conf.num + 3 * ml_confidence * cost_conf.den,
     den |-> 10 * 1000 * cost_conf.den]

\* The exception calculate_optimal_placement ends with, "" when it returns:
\* max() of no scores is a ValueError, cost_savings / estimated_cost with an
\* estimated_cost of 0 a ZeroDivisionError.
placement_error(costs, provider_name) ==
    IF DOMAIN costs = {} THEN "ValueError"
    ELSE IF DOMAIN costs # {provider_name} /\ costs[provider_name] = 0
    THEN "ZeroDivisionError"
    ELSE ""

\* The result of calculate_optimal_placement: raised when it ends with an
\* exception (nothing is appended then); otherwise the decision that is appended,
\* kept by its workload_id and selected_provider.
calculate_optimal_placement(workload) ==
    LET providers == _get_current_provider_states
        costs == [p \in DOMAIN providers |-> _calculate_workload_cost(workload, providers[p])]
        ml_predictions == [p \in DOMAIN providers |->
                              _predict_optimal_provider(workload, providers[p])]
        combined_scores == [p \in DOMAIN providers |->
                               combined_score(costs[p], ml_predictions[p])]
        provider_name == IF DOMAIN providers = {} THEN "" ELSE BestOf(combined_scores)
        error == placement_error(costs, provider_name)
    IN  IF error # ""
        THEN [raised |-> TRUE, error |-> error, provider |-> provider_name, region |-> "",
              estimated_cost |-> 0,
              decision |-> [workload_id |-> workload.id, selected_provider |-> provider_name]]
        ELSE [raised |-> FALSE, error |-> "",
              provider |-> provider_name,
              region |-> providers[provider_name].region,
              estimated_cost |-> costs[provider_name],
              decision |-> [workload_id |-> workload.id,
                            selected_provider |-> provider_name]]

\* The whole decision dict calculate_optimal_placement builds and the tuple it
\* returns, for a call that does not raise.
placement_decision(workload) ==
    LET providers == _get_current_provider_states
        costs == [p \in DOMAIN providers |-> _calculate_workload_cost(workload, providers[p])]
        ml_predictions == [p \in DOMAIN providers |->
                              _predict_optimal_provider(workload, providers[p])]
        combined_scores == [p \in DOMAIN providers |->
                               combined_score(costs[p], ml_predictions[p])]
        provider_name == BestOf(combined_scores)
        estimated_cost == costs[provider_name]
        other_costs == {costs[p] : p \in DOMAIN costs \ {provider_name}}
        cost_conf == cost_confidence(estimated_cost, other_costs)
        ml_confidence == ml_predictions[provider_name]
    IN  [workload_id |-> workload.id,
         selected_provider |-> provider_name,
         estimated_cost |-> estimated_cost,
         all_costs |-> costs,
         ml_predictions |-> ml_predictions,
         combined_scores |-> combined_scores,
         confidence_score |-> confidence_score(cost_conf, ml_confidence),
         cost_confidence |-> cost_conf,
         ml_confidence |-> ml_confidence]

\* no direct call of calculate_optimal_placement made yet
NoResult == [called |-> FALSE]

\* no handler or thread followed statement by statement
NoThreads == [followed |-> FALSE]

\* ---------------------------------------------------------------- change plan
\* a scale-up directive with no room above the desired capacity
scale_up_without_headroom(region, capacity) ==
    [region |-> region, desired_capacity |-> capacity, min_capacity |-> capacity,
     max_capacity |-> capacity, load_balancer |-> "create", target_group |-> "create",
     listener |-> "create", instances |-> "create", action |-> "scale_up"]

scale_up(region, capacity) ==
    [region |-> region, desired_capacity |-> capacity, min_capacity |-> capacity,
     max_capacity |-> capacity * 2, load_balancer |-> "create", target_group |-> "create",
     listener |-> "create", instances |-> "create", action |-> "scale_up"]

\* a scale-down directive that leaves one instance running
scale_down_keeping_one(region) ==
    [region |-> region, desired_capacity |-> 1, min_capacity |-> 0, max_capacity |-> 0,
     load_balancer |-> "destroy", target_group |-> "destroy", listener |-> "destroy",
     instances |-> "destroy", action |-> "scale_down"]

scale_down(region) ==
    [region |-> region, desired_capacity |-> 0, min_capacity |-> 0, max_capacity |-> 0,
     load_balancer |-> "destroy", target_group |-> "destroy", listener |-> "destroy",
     instances |-> "destroy", action |-> "scale_down"]

\* terraform_changes['changes'] of generate_terraform_changes; a provider that is
\* neither 'aws' nor 'alibaba' leaves it the empty dict
terraform_changes(workload, provider, region) ==
    IF provider = "aws"
    THEN [p \in Providers |-> IF p = "aws" THEN scale_up(region, required_instances(workload))
                                           ELSE scale_down(region)]
    ELSE IF provider = "alibaba"
    THEN [p \in Providers |-> IF p = "alibaba" THEN scale_up(region, required_instances(workload))
                                               ELSE scale_down(region)]
    ELSE [p \in {} |-> scale_down(region)]

generate_terraform_changes(workload, provider, region) ==
    [workload_id |-> workload.id, provider |-> provider, region |-> region,
     changes |-> terraform_changes(workload, provider, region)]

NoPlan == [workload_id |-> "", provider |-> "", region |-> "", changes |-> [p \in {} |-> 0]]

\* _apply_terraform_config_changes: the desired_capacity literal of each module
\* block named in the plan is overwritten (scale_down writes 0)
_apply_terraform_config_changes(plan, content) ==
    [p \in Providers |->
        IF p \in DOMAIN plan.changes
        THEN IF plan.changes[p].action = "scale_up" THEN plan.changes[p].desired_capacity
             ELSE IF plan.changes[p].action = "scale_down" THEN 0
             ELSE content[p]
        ELSE content[p]]

\* --------------------------------------------------------------- approval items
approval_request(workload, savings, reason) ==
    [workload_id |-> workload.id,
     estimated_savings |-> savings,
     aws_cost |-> _get_aws_cost,
     alibaba_cost |-> _get_alibaba_cost,
     recommended_provider |-> IF _get_alibaba_cost < _get_aws_cost THEN "alibaba" ELSE "aws",
     status |-> "pending_approval",
     reason |-> reason]

\* _queue_for_approval that builds the request and does not keep it
_queue_for_approval_dropped(workload, savings, reason) == pending_workloads

_queue_for_approval(workload, savings, reason) ==
    Append(pending_workloads, approval_request(workload, savings, reason))

\* the first item for the id that is not rejected; 0 when there is none
FirstUnrejectedMatch(workload_id) ==
    LET open == {i \in 1..Len(pending_workloads) :
                    /\ pending_workloads[i].workload_id = workload_id
                    /\ pending_workloads[i].status # "rejected"}
    IN  IF open = {} THEN 0 ELSE CHOOSE i \in open : \A j \in open : i <= j

\* index of the item approve_workload acts on: the first whose workload_id
\* matches; 0 when the loop finds none
FirstMatch(workload_id) ==
    IF \E i \in 1..Len(pending_workloads) : pending_workloads[i].workload_id = workload_id
    THEN CHOOSE i \in 1..Len(pending_workloads) :
            /\ pending_workloads[i].workload_id = workload_id
            /\ \A j \in 1..(i - 1) : pending_workloads[j].workload_id # workload_id
    ELSE 0

_get_running_workloads ==
    LET approved == SelectSeq(pending_workloads, LAMBDA w : w.status = "approved")
    IN  [i \in 1..Len(approved) |->
            [id |-> approved[i].workload_id,
             provider |-> approved[i].recommended_provider,
             cpu_cores |-> DeployCpuCores]]

\* ------------------------------------------------------------------- alerts
\* send_alert(message, severity) appended to a log of events: an unset
\* alert_webhook_url (monitoring failed to initialise) raises AttributeError, an
\* empty one returns at once, a set one posts and swallows any failure.
send_alert_raises == alert_webhook_url = "unset"
send_alert(log, severity) ==
    IF alert_webhook_url = "set" THEN Append(log, "alert_" \o severity) ELSE log

\* ------------------------------------------------------------------ operations
InitState ==
    /\ auto_deploy_enabled = FALSE
    /\ approval_threshold = DefaultApprovalThreshold
    /\ cost_threshold = DefaultCostThreshold
    /\ aws_simulated_cost = DefaultAwsCost
    /\ alibaba_simulated_cost = DefaultAlibabaCost
    /\ alert_webhook_url \in {"unset", "empty", "set"}
    /\ ml_model = UntrainedModel
    /\ telemetry_data = <<>>
    /\ collected = 0
    /\ monitored = 0
    /\ decision_history = <<>>
    /\ pending_workloads = <<>>
    /\ deployments = <<>>
    /\ main_tf = [p \in Providers |-> 0]
    /\ placement_result = NoResult

Init == InitState /\ threads = NoThreads

\* decisions still to be appended by deployments that have not placed yet
QueuedPlacements == Cardinality({i \in 1..Len(deployments) : deployments[i].pc = "queued"})

enable_auto_deploy(cost_threshold_condition) ==
    /\ auto_deploy_enabled' = TRUE
    /\ approval_threshold' = DefaultApprovalThreshold
    /\ cost_threshold' = cost_threshold_condition
    /\ UNCHANGED <<aws_simulated_cost, alibaba_simulated_cost, alert_webhook_url, ml_model,
                   telemetry_data, collected, monitored, decision_history,
                   pending_workloads, deployments, main_tf, placement_result, threads>>

disable_auto_deploy ==
    /\ auto_deploy_enabled' = FALSE
    /\ UNCHANGED <<approval_threshold, cost_threshold, aws_simulated_cost,
                   alibaba_simulated_cost, alert_webhook_url, ml_model, telemetry_data,
                   collected, monitored, decision_history, pending_workloads, deployments,
                   main_tf, placement_result, threads>>

\* the cost simulation endpoint: overrides both simulated costs
simulate_costs(aws_cost, alibaba_cost) ==
    /\ aws_simulated_cost' = aws_cost
    /\ alibaba_simulated_cost' = alibaba_cost
    /\ UNCHANGED <<auto_deploy_enabled, approval_threshold, cost_threshold,
                   alert_webhook_url, ml_model, telemetry_data, collected, monitored,
                   decision_history, pending_workloads, deployments, main_tf,
                   placement_result, threads>>

\* an iteration that cuts the history to its first 1000 records
_collect_telemetry_keeping_oldest(fetch_ok) ==
    /\ collected' = collected + 1
    /\ telemetry_data' =
          IF ~fetch_ok THEN telemetry_data
          ELSE LET appended == Append(telemetry_data, _fetch_telemetry_data)
               IN  IF Len(appended) > TelemetryCap
                   THEN SubSeq(appended, 1, TelemetryCap)
                   ELSE appended
    /\ UNCHANGED <<placement_result, monitored, config_vars, decision_history,
                   pending_workloads, deployments, main_tf>>

\* One iteration of the _collect_telemetry loop, by any collector task: the
\* append and the cut to the last 1000 records run with no await between them.
\* A fetch that raises is caught and logged, and the loop sleeps as usual.
_collect_telemetry(fetch_ok) ==
    /\ collected' = collected + 1
    /\ telemetry_data' =
          IF ~fetch_ok THEN telemetry_data
          ELSE LET appended == Append(telemetry_data, _fetch_telemetry_data)
               IN  IF Len(appended) > TelemetryCap
                   THEN SubSeq(appended, Len(appended) - TelemetryCap + 1, Len(appended))
                   ELSE appended
    /\ UNCHANGED <<placement_result, monitored, config_vars, decision_history,
                   pending_workloads, deployments, main_tf>>

\* _deploy_workload reads workload_data['workload_id'] first, inside its try.
\* approve_workload passes the item (a dict); the auto-deploy branch of
\* process_workload passes the Workload object, which is not subscriptable: the
\* TypeError is caught and logged by _deploy_workload, with no placement or plan.
deploy_argument_subscriptable(caller) == caller = "approve_workload"

\* a fresh execution of _deploy_workload: item is the index of the approved item,
\* in_thread whether it runs in its own thread or inside the calling handler
deployment(workload_id, i, in_thread) ==
    [workload_id |-> workload_id,
     item |-> i,
     in_thread |-> in_thread,
     pc |-> "queued",
     plan |-> NoPlan,
     apply_result |-> "none",
     rollbacks |-> 0,
     log |-> <<>>]

\* process_workload that starts the deployment of a workload it queues for
\* manual approval
process_workload_deploying_unapproved(workload) ==
    /\ LET placement == calculate_optimal_placement(workload)
           estimated_cost == _calculate_workload_cost(
                                 workload, _get_current_provider_states[placement.provider])
           savings == Abs(_get_aws_cost - _get_alibaba_cost)
       IN  IF placement.raised
           THEN \* except: logged, send_alert(..., "error")
                UNCHANGED <<decision_history, pending_workloads, deployments>>
           ELSE /\ decision_history' = Append(decision_history, placement.decision)
                /\ IF ~_check_cost_threshold(estimated_cost)
                   THEN /\ pending_workloads' =
                              _queue_for_approval(workload, estimated_cost,
                                                  "cost_threshold_exceeded")
                        /\ UNCHANGED deployments
                   ELSE IF auto_deploy_enabled /\ savings > approval_threshold
                   THEN /\ UNCHANGED pending_workloads
                        /\ IF deploy_argument_subscriptable("process_workload")
                           THEN deployments' = Append(deployments,
                                                      deployment(workload.id, 0, FALSE))
                           ELSE UNCHANGED deployments
                   ELSE /\ pending_workloads' =
                              _queue_for_approval(workload, savings * CostScale,
                                                  "manual_approval_required")
                        /\ deployments' = Append(deployments,
                                                 deployment(workload.id, 0, TRUE))
    /\ UNCHANGED <<threads, placement_result, monitored, config_vars, telemetry_data, collected, main_tf>>

process_workload(workload) ==
    /\ LET placement == calculate_optimal_placement(workload)
           estimated_cost == _calculate_workload_cost(
                                 workload, _get_current_provider_states[placement.provider])
           savings == Abs(_get_aws_cost - _get_alibaba_cost)
       IN  IF placement.raised
           THEN \* except: logged, send_alert(..., "error")
                UNCHANGED <<decision_history, pending_workloads, deployments>>
           ELSE /\ decision_history' = Append(decision_history, placement.decision)
                /\ IF ~_check_cost_threshold(estimated_cost)
                   THEN /\ pending_workloads' =
                              _queue_for_approval(workload, estimated_cost,
                                                  "cost_threshold_exceeded")
                        /\ UNCHANGED deployments
                   ELSE IF auto_deploy_enabled /\ savings > approval_threshold
                   THEN /\ UNCHANGED pending_workloads
                        /\ IF deploy_argument_subscriptable("process_workload")
                           THEN deployments' = Append(deployments,
                                                      deployment(workload.id, 0, FALSE))
                           ELSE UNCHANGED deployments
                   ELSE /\ pending_workloads' =
                              _queue_for_approval(workload, savings * CostScale,
                                                  "manual_approval_required")
                        /\ UNCHANGED deployments
    /\ UNCHANGED <<threads, placement_result, monitored, config_vars, telemetry_data, collected, main_tf>>

\* ---------------------------------------------------- _deploy_workload, in steps
\* what one execution of _deploy_workload reads and writes
deploy_state(dep) ==
    [dep |-> dep, decision_history |-> decision_history, main_tf |-> main_tf]

\* deploy_begin that starts the decision log afresh with its own decision
deploy_begin_resetting_log(st, init_ok) ==
    LET workload == [id |-> st.dep.workload_id, cpu_cores |-> DeployCpuCores]
        placement == calculate_optimal_placement(workload)
        plan == generate_terraform_changes(workload, placement.provider, placement.region)
    IN  IF placement.raised
        THEN [st EXCEPT !.dep.pc = "done"]
        ELSE [dep |-> [st.dep EXCEPT !.pc = IF init_ok THEN "apply" ELSE "rollback",
                                     !.plan = plan],
              decision_history |-> <<placement.decision>>,
              main_tf |-> IF init_ok
                          THEN _apply_terraform_config_changes(plan, st.main_tf)
                          ELSE st.main_tf]

\* deploy_begin that builds its Workload with a single core
deploy_begin_single_core(st, init_ok) ==
    LET workload == [id |-> st.dep.workload_id, cpu_cores |-> 1]
        placement == calculate_optimal_placement(workload)
        plan == generate_terraform_changes(workload, placement.provider, placement.region)
    IN  IF placement.raised
        THEN [st EXCEPT !.dep.pc = "done"]
        ELSE [dep |-> [st.dep EXCEPT !.pc = IF init_ok THEN "apply" ELSE "rollback",
                                     !.plan = plan],
              decision_history |-> Append(st.decision_history, placement.decision),
              main_tf |-> IF init_ok
                          THEN _apply_terraform_config_changes(plan, st.main_tf)
                          ELSE st.main_tf]

\* step 1: the Workload of fixed shape, calculate_optimal_placement, the plan of
\* generate_terraform_changes, and the head of _apply_terraform_changes:
\* terraform init, then the rewrite of main.tf.  A placement that raises ends the
\* execution in _deploy_workload's except; a failed init raises into the except
\* branch of _apply_terraform_changes (rollback).
deploy_begin(st, init_ok) ==
    LET workload == [id |-> st.dep.workload_id, cpu_cores |-> DeployCpuCores]
        placement == calculate_optimal_placement(workload)
        plan == generate_terraform_changes(workload, placement.provider, placement.region)
    IN  IF placement.raised
        THEN [st EXCEPT !.dep.pc = "done"]
        ELSE [dep |-> [st.dep EXCEPT !.pc = IF init_ok THEN "apply" ELSE "rollback",
                                     !.plan = plan],
              decision_history |-> Append(st.decision_history, placement.decision),
              main_tf |-> IF init_ok
                          THEN _apply_terraform_config_changes(plan, st.main_tf)
                          ELSE st.main_tf]

\* step 2: terraform apply -auto-approve and what follows its return code.  The
\* failure branch raises; so does send_alert on the success branch when
\* alert_webhook_url is unset: both land in the except branch (rollback).
terraform_apply(st, returncode_zero) ==
    [st EXCEPT
        !.dep.apply_result = IF returncode_zero THEN "success" ELSE "failed",
        !.dep.log = IF returncode_zero
                    THEN send_alert(Append(@, "metric_success"), "info")
                    ELSE send_alert(Append(@, "metric_failed"), "error"),
        !.dep.pc = IF returncode_zero /\ ~send_alert_raises THEN "done" ELSE "rollback"]

\* step 3: terraform apply -auto-approve -var min_capacity=0 -var max_capacity=0;
\* main.tf is not touched and a failed rollback is only logged
_rollback_terraform_changes(st, returncode_zero) ==
    [st EXCEPT
        !.dep.pc = "done",
        !.dep.rollbacks = @ + 1,
        !.dep.log = Append(@, IF returncode_zero THEN "rollback_ok" ELSE "rollback_failed")]

\* the whole of _deploy_workload, run in one go by the caller
_deploy_workload(st, init_ok, apply_ok, rollback_ok) ==
    LET begun == deploy_begin(st, init_ok)
        applied == IF begun.dep.pc = "apply" THEN terraform_apply(begun, apply_ok) ELSE begun
    IN  IF applied.dep.pc = "rollback"
        THEN _rollback_terraform_changes(applied, rollback_ok)
        ELSE applied

\* approve_workload that records the status and starts nothing
approve_workload_status_only(workload_id, approved, thread_started) ==
    /\ LET i == FirstMatch(workload_id)
       IN  IF i = 0
           THEN UNCHANGED pending_workloads
           ELSE pending_workloads' =
                   [pending_workloads EXCEPT
                       ![i].status = IF approved THEN "approved" ELSE "rejected"]
    /\ UNCHANGED <<threads, placement_result, monitored, config_vars, telemetry_data, collected, decision_history,
                   deployments, main_tf>>

\* approve_workload that calls _deploy_workload itself instead of starting the
\* thread, and returns when the deployment has ended
approve_workload_blocking(workload_id, approved, thread_started) ==
    /\ LET i == FirstMatch(workload_id)
       IN  IF i = 0
           THEN UNCHANGED <<pending_workloads, deployments, decision_history, main_tf>>
           ELSE IF approved
           THEN /\ pending_workloads' = [pending_workloads EXCEPT ![i].status = "approved"]
                /\ \E init_ok \in BOOLEAN, apply_ok \in BOOLEAN, rollback_ok \in BOOLEAN :
                       LET st == _deploy_workload(
                                     deploy_state(deployment(workload_id, i, thread_started)),
                                     init_ok, apply_ok, rollback_ok)
                       IN  /\ deployments' = Append(deployments, st.dep)
                           /\ decision_history' = st.decision_history
                           /\ main_tf' = st.main_tf
           ELSE /\ pending_workloads' = [pending_workloads EXCEPT ![i].status = "rejected"]
                /\ UNCHANGED <<deployments, decision_history, main_tf>>
    /\ UNCHANGED <<threads, placement_result, monitored, config_vars, telemetry_data, collected>>

\* approve_workload(workload_id, approved); thread_started is whether
\* deployment_thread.start() returned (it raises when no thread can be created,
\* and the except branch then runs _deploy_workload in the calling thread, to its
\* end, before approve_workload returns)
approve_workload(workload_id, approved, thread_started) ==
    /\ LET i == FirstMatch(workload_id)
       IN  IF i = 0
           THEN UNCHANGED <<pending_workloads, deployments, decision_history, main_tf>>
           ELSE IF approved
           THEN /\ pending_workloads' = [pending_workloads EXCEPT ![i].status = "approved"]
                /\ IF thread_started
                   THEN /\ deployments' = Append(deployments,
                                                 deployment(workload_id, i, TRUE))
                        /\ UNCHANGED <<decision_history, main_tf>>
                   ELSE \E init_ok \in BOOLEAN, apply_ok \in BOOLEAN, rollback_ok \in BOOLEAN :
                           LET st == _deploy_workload(
                                         deploy_state(deployment(workload_id, i, FALSE)),
                                         init_ok, apply_ok, rollback_ok)
                           IN  /\ deployments' = Append(deployments, st.dep)
                               /\ decision_history' = st.decision_history
                               /\ main_tf' = st.main_tf
           ELSE /\ pending_workloads' = [pending_workloads EXCEPT ![i].status = "rejected"]
                /\ UNCHANGED <<deployments, decision_history, main_tf>>
    /\ UNCHANGED <<threads, placement_result, monitored, config_vars, telemetry_data, collected>>

\* one step of the deployment thread d
deploy_step(d, st) ==
    /\ deployments' = [deployments EXCEPT ![d] = st.dep]
    /\ decision_history' = st.decision_history
    /\ main_tf' = st.main_tf
    /\ UNCHANGED <<threads, placement_result, monitored, config_vars, telemetry_data, collected, pending_workloads>>

deploy_start(d, init_ok) ==
    /\ d \in 1..Len(deployments)
    /\ deployments[d].pc = "queued"
    /\ deploy_step(d, deploy_begin(deploy_state(deployments[d]), init_ok))

deploy_apply(d, returncode_zero) ==
    /\ d \in 1..Len(deployments)
    /\ deployments[d].pc = "apply"
    /\ deploy_step(d, terraform_apply(deploy_state(deployments[d]), returncode_zero))

deploy_rollback(d, returncode_zero) ==
    /\ d \in 1..Len(deployments)
    /\ deployments[d].pc = "rollback"
    /\ deploy_step(d, _rollback_terraform_changes(deploy_state(deployments[d]),
                                                  returncode_zero))

\* -------------------------------------------------------------- drift monitor
\* `await self._get_aws_cost()` awaits the float a plain method returns: the
\* TypeError is caught by _monitor_workload_costs' own except and logged
await_cost_raises == TRUE

\* the item _request_switch_approval appends
_request_switch_approval(workload, new_provider, savings) ==
    [workload_id |-> workload.id,
     current_provider |-> workload.provider,
     new_provider |-> new_provider,
     estimated_savings |-> savings * CostScale,
     reason |-> "cost_optimization",
     status |-> "pending_switch_approval"]

\* the switch requests _monitor_workload_costs raises for one running workload
_monitor_workload_costs(workload) ==
    IF await_cost_raises THEN <<>>
    ELSE LET aws_cost == _get_aws_cost
             alibaba_cost == _get_alibaba_cost
         IN  IF workload.provider = "aws" /\ alibaba_cost < aws_cost
                /\ aws_cost - alibaba_cost > SwitchSavingsThreshold
             THEN <<_request_switch_approval(workload, "alibaba", aws_cost - alibaba_cost)>>
             ELSE IF workload.provider = "alibaba" /\ aws_cost < alibaba_cost
                     /\ alibaba_cost - aws_cost > SwitchSavingsThreshold
             THEN <<_request_switch_approval(workload, "aws", alibaba_cost - aws_cost)>>
             ELSE <<>>

RECURSIVE monitor_all(_, _)
monitor_all(running, k) ==
    IF k > Len(running) THEN <<>>
    ELSE _monitor_workload_costs(running[k]) \o monitor_all(running, k + 1)

\* the approved item of a workload whose provider now costs more than the other
\* one by more than the switch threshold
OtherProvider(p) == IF p = "aws" THEN "alibaba" ELSE "aws"
ProviderCost(p) == IF p = "aws" THEN _get_aws_cost ELSE _get_alibaba_cost
Drifted(item) ==
    /\ item.status = "approved"
    /\ ProviderCost(item.recommended_provider)
          - ProviderCost(OtherProvider(item.recommended_provider)) > SwitchSavingsThreshold

\* an iteration that moves every drifted workload to the cheaper provider itself
_continuous_monitoring_switching ==
    /\ UNCHANGED <<pending_workloads, placement_result, config_vars, telemetry_data,
                   collected, decision_history, deployments>>
    /\ main_tf' =
          IF \E i \in 1..Len(pending_workloads) : Drifted(pending_workloads[i])
          THEN LET i == CHOOSE j \in 1..Len(pending_workloads) : Drifted(pending_workloads[j])
                   target == OtherProvider(pending_workloads[i].recommended_provider)
               IN  [p \in Providers |->
                       IF p = target THEN required_instances([cpu_cores |-> DeployCpuCores])
                       ELSE 0]
          ELSE main_tf

\* one iteration of the _continuous_monitoring loop
_continuous_monitoring ==
    /\ LET running == _get_running_workloads
           requests == monitor_all(running, 1)
       IN  pending_workloads' = pending_workloads \o requests
    /\ UNCHANGED <<placement_result, config_vars, telemetry_data, collected,
                   decision_history, deployments, main_tf>>

\* what a run is cut to: executions of _deploy_workload, decisions, items
CanDeploy(max_deployments) == Len(deployments) < max_deployments
CanDecide(max_decisions) ==
    max_decisions - Len(decision_history) - QueuedPlacements >= 1
CanApprove(workload_id, approved, max_deployments, max_decisions) ==
    (approved /\ FirstMatch(workload_id) # 0)
    => (CanDeploy(max_deployments) /\ CanDecide(max_decisions))

\* the handlers, the telemetry loop and the deployment threads
EngineNext ==
    \/ \E c \in CostThresholdChoices : enable_auto_deploy(c)
    \/ disable_auto_deploy
    \/ \E s \in CostScenarios : simulate_costs(s[1], s[2])
    \/ collected < MaxCollect /\ _collect_telemetry(TRUE) /\ UNCHANGED threads
    \/ \E w \in WorkloadIds, c \in CpuChoices :
          CanDecide(MaxDecisions) /\ process_workload([id |-> w, cpu_cores |-> c])
    \/ \E w \in WorkloadIds \cup UnknownIds, a \in BOOLEAN, t \in BOOLEAN :
          CanApprove(w, a, MaxDeployments, MaxDecisions) /\ approve_workload(w, a, t)
    \/ \E d \in 1..MaxDeployments, r \in BOOLEAN : deploy_start(d, r)
    \/ \E d \in 1..MaxDeployments, r \in BOOLEAN : deploy_apply(d, r)
    \/ \E d \in 1..MaxDeployments, r \in BOOLEAN : deploy_rollback(d, r)

Next ==
    \/ EngineNext
    \/ _continuous_monitoring /\ UNCHANGED <<monitored, threads>>

Spec == Init /\ [][Next]_vars

\* ------------------------------------------ the engine with the monitor counted
\* one iteration of the drift monitor, counted
monitor_loop ==
    /\ monitored' = monitored + 1
    /\ _continuous_monitoring
    /\ UNCHANGED threads

MonitorNext ==
    \/ EngineNext
    \/ monitored < MaxMonitor /\ monitor_loop

MonitorSpec == Init /\ [][MonitorNext]_vars

\* ----------------------------------------- the engine after a drift of the costs
\* The engine after process_workload("w1") at the default costs,
\* approve_workload("w1", True), its deployment thread run to a successful apply
\* on aws, and a change of the simulated costs that makes aws the dearer one.
DriftState ==
    /\ auto_deploy_enabled = FALSE
    /\ approval_threshold = DefaultApprovalThreshold
    /\ cost_threshold = DefaultCostThreshold
    /\ aws_simulated_cost = 200000
    /\ alibaba_simulated_cost = 100000
    /\ alert_webhook_url \in {"empty", "set"}
    /\ ml_model = UntrainedModel
    /\ telemetry_data = <<>>
    /\ collected = 0
    /\ monitored = 0
    /\ decision_history = <<[workload_id |-> "w1", selected_provider |-> "aws"],
                            [workload_id |-> "w1", selected_provider |-> "aws"]>>
    /\ pending_workloads =
          <<[workload_id |-> "w1",
             estimated_savings |-> (DefaultAlibabaCost - DefaultAwsCost) * CostScale,
             aws_cost |-> DefaultAwsCost,
             alibaba_cost |-> DefaultAlibabaCost,
             recommended_provider |-> "aws",
             status |-> "approved",
             reason |-> "manual_approval_required"]>>
    /\ deployments =
          <<[workload_id |-> "w1", item |-> 1, in_thread |-> TRUE, pc |-> "done",
             plan |-> generate_terraform_changes([id |-> "w1", cpu_cores |-> DeployCpuCores],
                                                 "aws", "us-east-1"),
             apply_result |-> "success", rollbacks |-> 0,
             log |-> IF alert_webhook_url = "set"
                     THEN <<"metric_success", "alert_info">>
                     ELSE <<"metric_success">>]>>
    /\ main_tf = [p \in Providers |->
                     IF p = "aws" THEN required_instances([cpu_cores |-> DeployCpuCores])
                     ELSE 0]
    /\ placement_result = NoResult

DriftInit == DriftState /\ threads = NoThreads

DriftNext ==
    \/ collected < MaxCollect /\ _collect_telemetry(TRUE) /\ UNCHANGED threads
    \/ \E w \in WorkloadIds, c \in CpuChoices :
          CanDecide(MaxDriftDecisions) /\ process_workload([id |-> w, cpu_cores |-> c])
    \/ \E w \in WorkloadIds, a \in BOOLEAN, t \in BOOLEAN :
          /\ CanApprove(w, a, MaxDriftDeployments, MaxDriftDecisions)
          /\ approve_workload(w, a, t)
    \/ \E d \in 1..MaxDriftDeployments, r \in BOOLEAN : deploy_start(d, r)
    \/ \E d \in 1..MaxDriftDeployments, r \in BOOLEAN : deploy_apply(d, r)
    \/ \E d \in 1..MaxDriftDeployments, r \in BOOLEAN : deploy_rollback(d, r)
    \/ monitored < MaxMonitor /\ monitor_loop

DriftSpec == DriftInit /\ [][DriftNext]_vars

\* ------------------------------------------- the telemetry loop at its 1000 cap
\* The engine after 999 or 1000 iterations of _collect_telemetry at the default
\* costs, with no workload submitted; the simulated costs may have been changed
\* since the last collection.
HistoryLengths == {TelemetryCap - 1, TelemetryCap}

CollectInit ==
    /\ auto_deploy_enabled = FALSE
    /\ approval_threshold = DefaultApprovalThreshold
    /\ cost_threshold = DefaultCostThreshold
    /\ \E sc \in CostScenarios : /\ aws_simulated_cost = sc[1]
                                 /\ alibaba_simulated_cost = sc[2]
    /\ alert_webhook_url \in {"unset", "empty", "set"}
    /\ ml_model = UntrainedModel
    /\ \E n \in HistoryLengths :
          /\ collected = n
          /\ telemetry_data =
                [i \in 1..n |->
                    [timestamp |-> i,
                     providers |->
                        [p \in Providers |->
                            IF p = "aws"
                            THEN [region |-> "us-east-1", cost_per_hour |-> DefaultAwsCost,
                                  spot_available |-> TRUE, credits_available |-> 500]
                            ELSE [region |-> "us-west-1",
                                  cost_per_hour |-> DefaultAlibabaCost,
                                  spot_available |-> TRUE, credits_available |-> 200]]]]
    /\ monitored = 0
    /\ decision_history = <<>>
    /\ pending_workloads = <<>>
    /\ deployments = <<>>
    /\ main_tf = [p \in Providers |-> 0]
    /\ placement_result = NoResult
    /\ threads = NoThreads

CollectNext ==
    \/ \E sc \in CostScenarios : simulate_costs(sc[1], sc[2])
    \/ \E fetch_ok \in BOOLEAN :
          /\ collected < TelemetryCap + MaxCollect
          /\ _collect_telemetry(fetch_ok)
          /\ UNCHANGED threads

CollectSpec == CollectInit /\ [][CollectNext]_vars

\* --------------------------------------- calculate_optimal_placement on its own
\* provider snapshots the function is called with: any subset of the providers,
\* cost_per_hour in milli-dollars, credits_available as a count
ScoreCostChoices == {0, 1, 2}
ScoreCreditChoices == {0, 100, 1500}
ScoreCpuChoices == {1, 3, 4}
\* predict_proba(features)[0] of a fitted model
PredictionChoices == {<<1000>>, <<1000, 0>>, <<0, 1000>>}
MlModels ==
    {NoModel, UntrainedModel}
        \cup {TrainedModel(f) : f \in [ScoreCpuChoices -> PredictionChoices]}

provider_region(p) == IF p = "aws" THEN "us-east-1" ELSE "us-west-1"

ProviderData(p) ==
    {[region |-> provider_region(p), cost_per_hour |-> c,
      spot_available |-> sp, credits_available |-> cr] :
        c \in ScoreCostChoices, sp \in BOOLEAN, cr \in ScoreCreditChoices}

Snapshots ==
    UNION {{f \in [ps -> UNION {ProviderData(p) : p \in ps}] :
               \A p \in ps : f[p] \in ProviderData(p)} : ps \in SUBSET Providers}

\* the engine with one telemetry record collected, whose 'providers' is the snapshot
ScoreInit ==
    /\ auto_deploy_enabled = FALSE
    /\ approval_threshold = DefaultApprovalThreshold
    /\ cost_threshold = DefaultCostThreshold
    /\ aws_simulated_cost = DefaultAwsCost
    /\ alibaba_simulated_cost = DefaultAlibabaCost
    /\ alert_webhook_url = "empty"
    /\ ml_model \in MlModels
    /\ telemetry_data \in {<<[timestamp |-> 1, providers |-> snapshot]>> :
                             snapshot \in Snapshots}
    /\ collected = 1
    /\ monitored = 0
    /\ decision_history = <<>>
    /\ pending_workloads = <<>>
    /\ deployments = <<>>
    /\ main_tf = [p \in Providers |-> 0]
    /\ placement_result = NoResult
    /\ threads = NoThreads

\* one call of calculate_optimal_placement(workload): what it returns or raises,
\* and its append to decision_history
call_calculate_optimal_placement(workload) ==
    /\ Len(decision_history) < MaxDecisions
    /\ LET placement == calculate_optimal_placement(workload)
       IN  IF placement.raised
           THEN /\ placement_result' = [called |-> TRUE, workload |-> workload,
                                        raised |-> TRUE, error |-> placement.error]
                /\ UNCHANGED decision_history
           ELSE /\ placement_result' = [called |-> TRUE, workload |-> workload,
                                        raised |-> FALSE, error |-> "",
                                        provider |-> placement.provider,
                                        region |-> placement.region,
                                        decision |-> placement_decision(workload)]
                /\ decision_history' = Append(decision_history, placement.decision)
    /\ UNCHANGED <<threads, config_vars, telemetry_data, collected, monitored,
                   pending_workloads, deployments, main_tf>>

ScoreNext ==
    \E w \in WorkloadIds, c \in ScoreCpuChoices :
        call_calculate_optimal_placement([id |-> w, cpu_cores |-> c])

ScoreSpec == ScoreInit /\ [][ScoreNext]_vars

\* ------------------------------ handlers and threads, statement by statement
\* Flask serves every request in a thread of its own, approve_workload starts a
\* deployment thread and the monitor runs on the thread of the event loop; the
\* engine holds no lock.  One list.append, one assignment to a dict item and one
\* step of a list iterator each run under the interpreter lock and are the
\* steps below.  In flight: one approve_workload and one process_workload for
\* the same workload, one iteration of _continuous_monitoring, and the
\* deployment approve_workload starts.
RaceWorkloadId == "w1"

RaceOperations == {"approve", "submit", "monitor", "deploy"}

\* the decision calculate_optimal_placement appends for a workload, if any
placed_decisions(workload) ==
    LET placement == calculate_optimal_placement(workload)
    IN  IF placement.raised THEN <<>> ELSE <<placement.decision>>

\* the item process_workload queues after a placement that did not raise, if any
queued_items(workload) ==
    LET placement == calculate_optimal_placement(workload)
        estimated_cost == _calculate_workload_cost(
                              workload, _get_current_provider_states[placement.provider])
        savings == Abs(_get_aws_cost - _get_alibaba_cost)
    IN  IF ~_check_cost_threshold(estimated_cost)
        THEN <<approval_request(workload, estimated_cost, "cost_threshold_exceeded")>>
        ELSE IF auto_deploy_enabled /\ savings > approval_threshold
        THEN <<>>
        ELSE <<approval_request(workload, savings * CostScale, "manual_approval_required")>>

\* the positions and locals of the operations when they all start
StartThreads(pending, decisions, approved, cpu_cores) ==
    [followed |-> TRUE,
     initial |-> [pending |-> pending, decisions |-> decisions, started |-> FALSE],
     approve |-> [pc |-> "scan", k |-> 1, approved |-> approved],
     submit |-> [pc |-> "place",
                 workload |-> [id |-> RaceWorkloadId, cpu_cores |-> cpu_cores]],
     monitor |-> [pc |-> "scan", k |-> 1, running |-> 0],
     deploy |-> [pc |-> "absent"]]

\* The engine with no telemetry collected yet and the default costs, after no
\* or one submission for the workload.
RaceInit ==
    /\ auto_deploy_enabled = FALSE
    /\ approval_threshold = DefaultApprovalThreshold
    /\ cost_threshold = DefaultCostThreshold
    /\ aws_simulated_cost = DefaultAwsCost
    /\ alibaba_simulated_cost = DefaultAlibabaCost
    /\ alert_webhook_url \in {"unset", "empty", "set"}
    /\ ml_model = UntrainedModel
    /\ telemetry_data = <<>>
    /\ collected = 0
    /\ monitored = 0
    /\ \E submitted \in SUBSET CpuChoices :
          /\ Cardinality(submitted) <= 1
          /\ \E first \in [1..Cardinality(submitted) -> submitted] :
                /\ decision_history =
                      [i \in 1..Len(first) |->
                          placed_decisions([id |-> RaceWorkloadId,
                                            cpu_cores |-> first[i]])[1]]
                /\ pending_workloads =
                      [i \in 1..Len(first) |->
                          queued_items([id |-> RaceWorkloadId,
                                        cpu_cores |-> first[i]])[1]]
    /\ deployments = <<>>
    /\ main_tf = [p \in Providers |-> 0]
    /\ placement_result = NoResult
    /\ \E approved \in BOOLEAN, cpu_cores \in CpuChoices :
          threads = StartThreads(pending_workloads, decision_history, approved, cpu_cores)

\* approve_workload, `for workload in self.pending_workloads` with the test of
\* the id: one step of the iterator over the list as it is now
approve_workload_scan ==
    /\ threads.followed
    /\ threads.approve.pc = "scan"
    /\ LET k == threads.approve.k
       IN  threads' =
              IF k > Len(pending_workloads)
              THEN [threads EXCEPT !.approve.pc = "done"]
              ELSE IF pending_workloads[k].workload_id = RaceWorkloadId
              THEN [threads EXCEPT !.approve.pc = "set"]
              ELSE [threads EXCEPT !.approve.k = k + 1]
    /\ UNCHANGED <<placement_result, monitored, config_vars, telemetry_data, collected,
                   decision_history, pending_workloads, deployments, main_tf>>

\* approve_workload that writes back the list as it was when the operations
\* started, with the status of the item changed
approve_workload_set_status_on_copy ==
    /\ threads.followed
    /\ threads.approve.pc = "set"
    /\ LET k == threads.approve.k
           status == IF threads.approve.approved THEN "approved" ELSE "rejected"
       IN  pending_workloads' =
              IF k <= Len(threads.initial.pending)
              THEN [threads.initial.pending EXCEPT ![k].status = status]
              ELSE [pending_workloads EXCEPT ![k].status = status]
    /\ threads' = [threads EXCEPT
                      !.approve.pc = IF threads.approve.approved THEN "start" ELSE "done"]
    /\ UNCHANGED <<placement_result, monitored, config_vars, telemetry_data, collected,
                   decision_history, deployments, main_tf>>

\* approve_workload, `workload['status'] = ...` on the item the loop stands on
approve_workload_set_status ==
    /\ threads.followed
    /\ threads.approve.pc = "set"
    /\ pending_workloads' =
          [pending_workloads EXCEPT
              ![threads.approve.k].status =
                  IF threads.approve.approved THEN "approved" ELSE "rejected"]
    /\ threads' = [threads EXCEPT
                      !.approve.pc = IF threads.approve.approved THEN "start" ELSE "done"]
    /\ UNCHANGED <<placement_result, monitored, config_vars, telemetry_data, collected,
                   decision_history, deployments, main_tf>>

\* approve_workload, deployment_thread.start() (or the direct call of the
\* fallback), then break
approve_workload_start_thread ==
    /\ threads.followed
    /\ threads.approve.pc = "start"
    /\ threads' = [threads EXCEPT !.approve.pc = "done", !.deploy.pc = "place"]
    /\ UNCHANGED <<placement_result, monitored, config_vars, telemetry_data, collected,
                   decision_history, pending_workloads, deployments, main_tf>>

\* _deploy_workload up to the rewrite of main.tf: the decision is appended by
\* calculate_optimal_placement; what follows touches no collection
_deploy_workload_place ==
    /\ threads.followed
    /\ threads.deploy.pc = "place"
    /\ LET begun == deploy_begin(
                        deploy_state(deployment(RaceWorkloadId, threads.approve.k, TRUE)),
                        TRUE)
       IN  /\ decision_history' = begun.decision_history
           /\ main_tf' = begun.main_tf
    /\ threads' = [threads EXCEPT !.deploy.pc = "done"]
    /\ UNCHANGED <<placement_result, monitored, config_vars, telemetry_data, collected,
                   pending_workloads, deployments>>

\* process_workload that queues its item first and logs the decision afterwards
process_workload_place_after_queue ==
    /\ threads.followed
    /\ threads.submit.pc = "place"
    /\ pending_workloads' = pending_workloads \o queued_items(threads.submit.workload)
    /\ threads' = [threads EXCEPT !.submit.pc = "queue"]
    /\ UNCHANGED <<placement_result, monitored, config_vars, telemetry_data, collected,
                   decision_history, deployments, main_tf>>

\* process_workload, the call of calculate_optimal_placement: the decision is
\* appended; a placement that raises ends the handler in its except
process_workload_place ==
    /\ threads.followed
    /\ threads.submit.pc = "place"
    /\ LET placed == placed_decisions(threads.submit.workload)
       IN  /\ decision_history' = decision_history \o placed
           /\ threads' = [threads EXCEPT
                             !.submit.pc = IF placed = <<>> THEN "done" ELSE "queue"]
    /\ UNCHANGED <<placement_result, monitored, config_vars, telemetry_data, collected,
                   pending_workloads, deployments, main_tf>>

\* process_workload, the cost gate and _queue_for_approval's append
process_workload_queue ==
    /\ threads.followed
    /\ threads.submit.pc = "queue"
    /\ pending_workloads' = pending_workloads \o queued_items(threads.submit.workload)
    /\ threads' = [threads EXCEPT !.submit.pc = "done"]
    /\ UNCHANGED <<placement_result, monitored, config_vars, telemetry_data, collected,
                   decision_history, deployments, main_tf>>

\* _get_running_workloads, one step of its loop over the items; at the end of
\* the list _monitor_workload_costs runs for what was found and changes nothing
_get_running_workloads_scan ==
    /\ threads.followed
    /\ threads.monitor.pc = "scan"
    /\ LET k == threads.monitor.k
       IN  threads' =
              IF k > Len(pending_workloads)
              THEN [threads EXCEPT !.monitor.pc = "done"]
              ELSE [threads EXCEPT
                       !.monitor.k = k + 1,
                       !.monitor.running =
                           IF pending_workloads[k].status = "approved" THEN @ + 1 ELSE @]
    /\ pending_workloads' =
          pending_workloads
          \o (IF threads.monitor.k > Len(pending_workloads)
              THEN monitor_all(_get_running_workloads, 1)
              ELSE <<>>)
    /\ UNCHANGED <<placement_result, monitored, config_vars, telemetry_data, collected,
                   decision_history, deployments, main_tf>>

RaceNext ==
    \/ approve_workload_scan
    \/ approve_workload_set_status
    \/ approve_workload_start_thread
    \/ _deploy_workload_place
    \/ process_workload_place
    \/ process_workload_queue
    \/ _get_running_workloads_scan

RaceSpec == RaceInit /\ [][RaceNext]_vars

\* The same operations run one after the other, each from its first statement
\* to its last, on the two collections.
serial_step(st, operation) ==
    IF operation = "submit"
    THEN LET workload == threads.submit.workload
         IN  IF placed_decisions(workload) = <<>> THEN st
             ELSE [st EXCEPT !.decisions = @ \o placed_decisions(workload),
                             !.pending = @ \o queued_items(workload)]
    ELSE IF operation = "approve"
    THEN LET matches == {i \in 1..Len(st.pending) :
                            st.pending[i].workload_id = RaceWorkloadId}
         IN  IF matches = {} THEN st
             ELSE LET i == CHOOSE m \in matches : \A n \in matches : m <= n
                  IN  [st EXCEPT
                          !.pending[i].status =
                              IF threads.approve.approved THEN "approved" ELSE "rejected",
                          !.started = threads.approve.approved]
    ELSE IF operation = "deploy" /\ st.started
    THEN [st EXCEPT
             !.decisions = @ \o placed_decisions([id |-> RaceWorkloadId,
                                                  cpu_cores |-> DeployCpuCores])]
    ELSE st

RECURSIVE serial_run(_, _)
serial_run(st, order) ==
    IF order = <<>> THEN st
    ELSE serial_run(serial_step(st, Head(order)), Tail(order))

\* the orders in which the operations can run one after the other: the
\* deployment exists once approve_workload has started it
SerialOrders ==
    {order \in [1..Cardinality(RaceOperations) -> RaceOperations] :
        /\ \A i, j \in DOMAIN order : i # j => order[i] # order[j]
        /\ \A i, j \in DOMAIN order :
              order[i] = "approve" /\ order[j] = "deploy" => i < j}

SerialOutcomes ==
    {[pending |-> out.pending, decisions |-> out.decisions] :
        out \in {serial_run(threads.initial, order) : order \in SerialOrders}}

AllOperationsDone ==
    /\ threads.followed
    /\ threads.approve.pc = "done"
    /\ threads.submit.pc = "done"
    /\ threads.monitor.pc = "done"
    /\ threads.deploy.pc \in {"absent", "done"}

\* ----------------------------------------------------- the two loops, running
\* _collect_telemetry and _continuous_monitoring are tasks of the event loop,
\* each a `while True` around a try.  The engine is the one of DriftState: a
\* workload is running, so every iteration of the monitor has a cost check that
\* raises.
StartLoops ==
    [followed |-> FALSE,
     collector |-> [pc |-> "body", failed |-> FALSE],
     monitor |-> [pc |-> "sleep", failed |-> FALSE]]

LoopInit == DriftState /\ threads = StartLoops

\* the loop of _collect_telemetry with no try around its body: a fetch that
\* raises ends the task
collect_loop_without_except(fetch_ok) ==
    /\ threads.collector.pc = "body"
    /\ _collect_telemetry(fetch_ok)
    /\ threads' = [threads EXCEPT
                      !.collector = [pc |-> IF fetch_ok THEN "backoff" ELSE "ended",
                                     failed |-> ~fetch_ok]]

\* the body of one iteration of _collect_telemetry: the try, with the except
\* that logs; the task then stands at `await asyncio.sleep(60)`
collect_loop(fetch_ok) ==
    /\ threads.collector.pc = "body"
    /\ _collect_telemetry(fetch_ok)
    /\ threads' = [threads EXCEPT
                      !.collector = [pc |-> "backoff", failed |-> ~fetch_ok]]

\* `await asyncio.sleep(60)` returns and `while True` enters the next iteration
collect_backoff ==
    /\ threads.collector.pc = "backoff"
    /\ threads' = [threads EXCEPT !.collector.pc = "body"]
    /\ UNCHANGED <<placement_result, monitored, config_vars, telemetry_data, collected,
                   decision_history, pending_workloads, deployments, main_tf>>

\* one iteration of _continuous_monitoring from the return of
\* `await asyncio.sleep(3600)`: the TypeError of every cost check is caught and
\* logged by _monitor_workload_costs, the outer except is not reached, and the
\* task stands at the sleep of the next iteration
monitor_iteration ==
    /\ threads.monitor.pc = "sleep"
    /\ monitored' = monitored + 1
    /\ _continuous_monitoring
    /\ threads' = [threads EXCEPT
                      !.monitor.failed =
                          await_cost_raises /\ Len(_get_running_workloads) > 0]

CollectorStep ==
    \E fetch_ok \in BOOLEAN : collected < MaxLoopIterations /\ collect_loop(fetch_ok)

MonitorStep == monitored < MaxLoopIterations /\ monitor_iteration

LoopNext ==
    \/ CollectorStep
    \/ collect_backoff
    \/ MonitorStep

\* The event loop runs every task that is ready, and every sleep returns.
LoopSpec ==
    /\ LoopInit
    /\ [][LoopNext]_vars
    /\ WF_vars(CollectorStep)
    /\ WF_vars(collect_backoff)
    /\ WF_vars(MonitorStep)

\* ------------------------------------------------------------ main(), the start
\* main() builds the engine inside the running event loop, so __init__ creates
\* one task for each of _collect_telemetry, _update_cost_data and
\* _continuous_monitoring.  It then places the example workload and calls
\* generate_terraform_changes, which applies the plan on the thread of the event
\* loop, and starts Flask in a thread of its own.
MainWorkloadId == "workload-001"

Activities == {"telemetry", "cost", "monitor"}

StartTasks ==
    [followed |-> FALSE,
     main |-> "place",
     tasks |-> [a \in Activities |-> 1]]

MainInit == InitState /\ threads = StartTasks

\* one step of main()'s own deployment, deployments[1]
main_step(st, tasks) ==
    /\ deployments' = IF deployments = <<>> THEN <<st.dep>>
                      ELSE [deployments EXCEPT ![1] = st.dep]
    /\ decision_history' = st.decision_history
    /\ main_tf' = st.main_tf
    /\ threads' = [threads EXCEPT
                      !.tasks = tasks,
                      !.main = IF st.dep.pc = "done" THEN "serve" ELSE st.dep.pc]
    /\ UNCHANGED <<placement_result, monitored, config_vars, telemetry_data, collected,
                   pending_workloads>>

\* calculate_optimal_placement and generate_terraform_changes up to the rewrite
\* of main.tf
main_generate_terraform_changes(init_ok) ==
    /\ threads.main = "place"
    /\ main_step(deploy_begin(deploy_state(deployment(MainWorkloadId, 0, FALSE)), init_ok),
                 threads.tasks)

\* terraform apply on the thread of the event loop: after a return code of 0
\* _update_telemetry_after_deployment's asyncio.create_task finds the running
\* loop and creates a further _collect_telemetry task
main_apply(returncode_zero) ==
    /\ threads.main = "apply"
    /\ main_step(terraform_apply(deploy_state(deployments[1]), returncode_zero),
                 IF returncode_zero
                 THEN [threads.tasks EXCEPT !["telemetry"] = @ + 1]
                 ELSE threads.tasks)

main_rollback(returncode_zero) ==
    /\ threads.main = "rollback"
    /\ main_step(_rollback_terraform_changes(deploy_state(deployments[1]), returncode_zero),
                 threads.tasks)

\* Flask serves once main() has started it; a deployment of approve_workload
\* runs in a thread with no event loop, where create_task raises RuntimeError and
\* the refresh is skipped
Serving == threads.main = "serve"

MainNext ==
    \/ \E r \in BOOLEAN : main_generate_terraform_changes(r)
    \/ \E r \in BOOLEAN : main_apply(r)
    \/ \E r \in BOOLEAN : main_rollback(r)
    \/ \E s \in CostScenarios : Serving /\ simulate_costs(s[1], s[2])
    \/ \E w \in WorkloadIds, c \in CpuChoices :
          /\ Serving
          /\ CanDecide(MaxDriftDecisions)
          /\ process_workload([id |-> w, cpu_cores |-> c])
    \/ \E w \in WorkloadIds, a \in BOOLEAN, t \in BOOLEAN :
          /\ Serving
          /\ CanApprove(w, a, MaxDriftDeployments, MaxDriftDecisions)
          /\ approve_workload(w, a, t)
    \/ \E d \in 2..MaxDriftDeployments, r \in BOOLEAN : Serving /\ deploy_start(d, r)
    \/ \E d \in 2..MaxDriftDeployments, r \in BOOLEAN : Serving /\ deploy_apply(d, r)
    \/ \E d \in 2..MaxDriftDeployments, r \in BOOLEAN : Serving /\ deploy_rollback(d, r)

MainSpec == MainInit /\ [][MainNext]_vars

\* ------------------------------------------------- the three loops and a shutdown
\* The three tasks of __init__ with a request to shut down arriving at any time.
\* The source has no stop flag, event or handler: the request is recorded here
\* only so that what follows it can be stated, and no loop reads it.
StartShutdown ==
    [followed |-> FALSE,
     stop_requested |-> FALSE,
     collector |-> [pc |-> "body", failed |-> FALSE],
     cost |-> [pc |-> "body", refreshed |-> 0],
     monitor |-> [pc |-> "sleep", failed |-> FALSE]]

ShutdownInit == DriftState /\ threads = StartShutdown

request_shutdown ==
    /\ ~threads.stop_requested
    /\ threads' = [threads EXCEPT !.stop_requested = TRUE]
    /\ UNCHANGED <<placement_result, monitored, config_vars, telemetry_data, collected,
                   decision_history, pending_workloads, deployments, main_tf>>

\* one iteration of _update_cost_data: the two simulated costs are read and
\* logged, then `await asyncio.sleep(3600)` and `while True` again
_update_cost_data ==
    /\ threads.cost.pc = "body"
    /\ threads' = [threads EXCEPT !.cost.refreshed = @ + 1]
    /\ UNCHANGED <<placement_result, monitored, config_vars, telemetry_data, collected,
                   decision_history, pending_workloads, deployments, main_tf>>

CostStep == threads.cost.refreshed < MaxLoopIterations /\ _update_cost_data

ShutdownNext ==
    \/ request_shutdown
    \/ CollectorStep
    \/ collect_backoff
    \/ CostStep
    \/ MonitorStep

ShutdownSpec ==
    /\ ShutdownInit
    /\ [][ShutdownNext]_vars
    /\ WF_vars(CollectorStep)
    /\ WF_vars(collect_backoff)
    /\ WF_vars(CostStep)
    /\ WF_vars(MonitorStep)

\* ----------------------------------------------- what leaves process_workload
\* process_workload's except logs and then calls send_alert itself.  With
\* alert_webhook_url unset (and grafana_dashboard_id with it) the AttributeError
\* of send_alert after the cost-threshold queueing, or of
\* update_grafana_dashboard after an auto-deployment, or any error of the
\* placement, reaches that except, whose own send_alert raises again: this
\* second AttributeError leaves process_workload.
process_workload_raises(workload) ==
    LET placement == calculate_optimal_placement(workload)
        savings == Abs(_get_aws_cost - _get_alibaba_cost)
    IN  /\ send_alert_raises
        /\ \/ placement.raised
           \/ ~_check_cost_threshold(
                  _calculate_workload_cost(
                      workload, _get_current_provider_states[placement.provider]))
           \/ auto_deploy_enabled /\ savings > approval_threshold

\* ------------------------------------------------ process_workload and its metrics
\* What the Prometheus calls of one process_workload do: all succeed; the calls
\* inside the record_* helpers raise (each helper has its own try and logs); or
\* the calls made directly on the counters raise, the first of which is
\* workload_requests.labels(status='received').inc() at the head of the try.
MetricsModes == {"recorded", "helpers_raise", "counters_raise"}

\* the decision log, the items and the deployments after process_workload
process_workload_outcome(workload, metrics) ==
    LET placed == placed_decisions(workload)
        unchanged == [decision_history |-> decision_history,
                      pending_workloads |-> pending_workloads,
                      deployments |-> deployments]
    IN  IF metrics = "counters_raise"
        THEN \* the except is entered before the placement is computed
             unchanged
        ELSE IF placed = <<>>
        THEN unchanged
        ELSE [decision_history |-> decision_history \o placed,
              pending_workloads |-> pending_workloads \o queued_items(workload),
              deployments |-> deployments]

\* ------------------------------------------------- two workloads awaiting approval
\* The engine after process_workload for two workloads at the default costs with
\* auto-deploy off: both are queued for manual approval.
BurstWorkloadIds == {"w1", "w3"}

BurstInit ==
    /\ auto_deploy_enabled = FALSE
    /\ approval_threshold = DefaultApprovalThreshold
    /\ cost_threshold = DefaultCostThreshold
    /\ aws_simulated_cost = DefaultAwsCost
    /\ alibaba_simulated_cost = DefaultAlibabaCost
    /\ alert_webhook_url \in {"unset", "empty", "set"}
    /\ ml_model = UntrainedModel
    /\ telemetry_data = <<>>
    /\ collected = 0
    /\ monitored = 0
    /\ \E c \in CpuChoices :
          /\ decision_history = placed_decisions([id |-> "w1", cpu_cores |-> c])
                                \o placed_decisions([id |-> "w3", cpu_cores |-> c])
          /\ pending_workloads = queued_items([id |-> "w1", cpu_cores |-> c])
                                 \o queued_items([id |-> "w3", cpu_cores |-> c])
    /\ deployments = <<>>
    /\ main_tf = [p \in Providers |-> 0]
    /\ placement_result = NoResult
    /\ threads = NoThreads

BurstNext ==
    \/ \E w \in BurstWorkloadIds, a \in BOOLEAN, t \in BOOLEAN :
          /\ CanApprove(w, a, MaxBurstDeployments, MaxBurstDecisions)
          /\ approve_workload(w, a, t)
    \/ \E d \in 1..MaxBurstDeployments, r \in BOOLEAN : deploy_start(d, r)
    \/ \E d \in 1..MaxBurstDeployments, r \in BOOLEAN : deploy_apply(d, r)
    \/ \E d \in 1..MaxBurstDeployments, r \in BOOLEAN : deploy_rollback(d, r)

BurstSpec == BurstInit /\ [][BurstNext]_vars

\* ------------------------------------------------------------ fair scheduling
\* A deployment thread that has been started and can take its next step is
\* eventually scheduled, and the subprocess it waits for returns.
DeployStep(d) ==
    \/ \E r \in BOOLEAN : deploy_start(d, r)
    \/ \E r \in BOOLEAN : deploy_apply(d, r)
    \/ \E r \in BOOLEAN : deploy_rollback(d, r)

LiveSpec == Spec /\ \A d \in 1..MaxDeployments : WF_vars(DeployStep(d))

\* ------------------------------------------------------------------- properties
PendingStatuses == {"pending_approval", "pending_switch_approval"}
ResolvedStatuses == {"approved", "rejected"}
Items == 1..Len(pending_workloads)
Deployments == 1..Len(deployments)
LastItem(items) == items[Len(items)]

\* C1: a process_workload call whose selected provider has an estimated cost
\* strictly above cost_threshold appends one pending_approval item for the
\* workload and starts no deployment, with auto-deploy on or off and whatever
\* the cost differential.
C1_ThresholdGateQueues ==
    [][\A w \in WorkloadIds, c \in CpuChoices :
          LET workload == [id |-> w, cpu_cores |-> c]
              placement == calculate_optimal_placement(workload)
          IN  (/\ process_workload(workload)
               /\ ~placement.raised
               /\ placement.estimated_cost > cost_threshold * CostScale)
              => /\ Len(pending_workloads') = Len(pending_workloads) + 1
                 /\ SubSeq(pending_workloads', 1, Len(pending_workloads)) = pending_workloads
                 /\ LastItem(pending_workloads').workload_id = w
                 /\ LastItem(pending_workloads').status = "pending_approval"
                 /\ deployments' = deployments
                 /\ main_tf' = main_tf]_vars

\* an over-threshold item queued while auto-deploy is on and the cost
\* differential is above approval_threshold
C1_Witness ==
    /\ auto_deploy_enabled
    /\ Abs(_get_aws_cost - _get_alibaba_cost) > approval_threshold
    /\ pending_workloads # <<>>
    /\ LastItem(pending_workloads).reason = "cost_threshold_exceeded"
    /\ LastItem(pending_workloads).aws_cost = _get_aws_cost
    /\ deployments = <<>>

\* C2: an item whose status is approved or rejected keeps that status in every
\* later state.
C2_ResolvedStatusIsFinal ==
    [][\A i \in Items :
          pending_workloads[i].status \in ResolvedStatuses
          => /\ i <= Len(pending_workloads')
             /\ pending_workloads'[i].status = pending_workloads[i].status]_vars

\* C3: an approve call for an id that has no pending item changes no item,
\* appends no decision and starts no deployment.
HasPendingItem(workload_id) ==
    \E i \in Items : /\ pending_workloads[i].workload_id = workload_id
                     /\ pending_workloads[i].status \in PendingStatuses

C3_NoPendingItemNoEffect ==
    [][\A w \in WorkloadIds \cup UnknownIds, a \in BOOLEAN, t \in BOOLEAN :
          (approve_workload(w, a, t) /\ ~HasPendingItem(w))
          => UNCHANGED <<pending_workloads, decision_history, deployments, main_tf>>]_vars

\* C4: while an item is rejected no deployment for it is running, and none is
\* started for it.
C4_RejectedItemNeverDeploys ==
    [][\A i \in Items :
          pending_workloads[i].status = "rejected"
          => /\ \A d \in Deployments :
                   deployments[d].item = i => deployments[d].pc = "done"
             /\ \A d \in 1..Len(deployments') :
                   (d > Len(deployments) /\ deployments'[d].item = i) => FALSE]_vars

\* C5: once an item is approved, the deployment started for it eventually has
\* run to its end (placement, and the plan and apply that follow it).
C5_ApprovedLeadsToDeploymentRun ==
    \A i \in 1..MaxDecisions :
        (i \in Items /\ pending_workloads[i].status = "approved")
        ~> (\E d \in Deployments : deployments[d].item = i /\ deployments[d].pc = "done")

\* a deployment thread of an approved item that placed, planned and applied
C5_Witness ==
    \E d \in Deployments :
        /\ deployments[d].in_thread
        /\ deployments[d].pc = "done"
        /\ deployments[d].apply_result = "success"
        /\ deployments[d].plan # NoPlan
        /\ pending_workloads[deployments[d].item].status = "approved"

\* the deployment an approve step has just appended, if any
StartsDeployment == Len(deployments') = Len(deployments) + 1

\* C6 as stated: every approve(true) returns with the deployment handed over and
\* not yet run.
C6_ApproveNeverRunsDeployment ==
    [][\A w \in WorkloadIds, t \in BOOLEAN :
          (approve_workload(w, TRUE, t) /\ StartsDeployment)
          => /\ LastItem(deployments').in_thread
             /\ LastItem(deployments').pc = "queued"]_vars

\* C6 amended: approve(true) sets the item to approved; when the thread starts,
\* the call returns with the deployment queued in that thread and nothing of it
\* run; only when the thread cannot be started does the deployment run inside
\* the call.
C6_ApproveHandsOverWhenThreadStarts ==
    [][\A w \in WorkloadIds, t \in BOOLEAN :
          (approve_workload(w, TRUE, t) /\ FirstMatch(w) # 0)
          => /\ pending_workloads'[FirstMatch(w)].status = "approved"
             /\ StartsDeployment
             /\ LastItem(deployments').item = FirstMatch(w)
             /\ t => /\ LastItem(deployments').in_thread
                     /\ LastItem(deployments').pc = "queued"
                     /\ UNCHANGED <<decision_history, main_tf>>
             /\ ~t => /\ ~LastItem(deployments').in_thread
                      /\ LastItem(deployments').pc = "done"]_vars

\* an approved item whose deployment waits in its own thread
C6_Witness ==
    \E d \in Deployments :
        /\ deployments[d].in_thread
        /\ deployments[d].pc = "queued"
        /\ pending_workloads[deployments[d].item].status = "approved"
        /\ main_tf = [p \in Providers |-> 0]

\* C7: every plan of generate_terraform_changes names every provider, scales
\* exactly one up to a desired capacity of at least 1, and scales every other
\* one down to a desired capacity of 0.
SingleActiveProvider(plan) ==
    /\ DOMAIN plan.changes = Providers
    /\ Cardinality({p \in Providers : plan.changes[p].action = "scale_up"}) = 1
    /\ \A p \in Providers :
          \/ /\ plan.changes[p].action = "scale_up"
             /\ plan.changes[p].desired_capacity >= 1
          \/ /\ plan.changes[p].action = "scale_down"
             /\ plan.changes[p].desired_capacity = 0

C7_PlanHasSingleActiveProvider ==
    /\ \A d \in Deployments :
          deployments[d].plan # NoPlan => SingleActiveProvider(deployments[d].plan)
    /\ \A w \in WorkloadIds, c \in CpuChoices \cup {DeployCpuCores}, p \in Providers :
          SingleActiveProvider(
              generate_terraform_changes([id |-> w, cpu_cores |-> c], p,
                                         _get_current_provider_states[p].region))

\* a deployment holding the plan it was given, with both targets seen
C7_Witness ==
    \E d \in Deployments :
        /\ deployments[d].plan # NoPlan
        /\ deployments[d].plan.provider = "alibaba"
        /\ deployments[d].plan.changes["alibaba"].action = "scale_up"
        /\ deployments[d].plan.changes["aws"].action = "scale_down"

\* C8: the rollback step of a deployment whose apply failed comes after the
\* failure metric and the failure notification, is the only rollback of that
\* deployment, and leaves every provider at desired capacity 0.
C8_FailedApplyRollsBackToZero ==
    [][\A d \in Deployments :
          (/\ deployments[d].apply_result = "failed"
           /\ deployments[d].pc = "rollback"
           /\ \E r \in BOOLEAN : deploy_rollback(d, r))
          => /\ deployments[d].log = <<"metric_failed", "alert_error">>
             /\ deployments'[d].rollbacks = 1
             /\ deployments'[d].pc = "done"
             /\ \A p \in Providers : main_tf'[p] = 0]_vars

\* C9: a workload whose apply failed is not among the running workloads the
\* drift monitor iterates over.
C9_FailedDeploymentNotRunning ==
    \A d \in Deployments :
        deployments[d].apply_result = "failed"
        => \A k \in 1..Len(_get_running_workloads) :
              _get_running_workloads[k].id # deployments[d].workload_id

\* C10: no workload id has two items pending approval, nor two items pending
\* switch approval.
C10_OnePendingItemPerKind ==
    \A w \in WorkloadIds, kind \in PendingStatuses :
        Cardinality({i \in Items : /\ pending_workloads[i].workload_id = w
                                   /\ pending_workloads[i].status = kind}) <= 1

\* the cost-threshold gate of process_workload lets the workload through
GatePasses(workload) ==
    /\ ~calculate_optimal_placement(workload).raised
    /\ calculate_optimal_placement(workload).estimated_cost <= cost_threshold * CostScale

AutoDeployCondition ==
    /\ auto_deploy_enabled
    /\ Abs(_get_aws_cost - _get_alibaba_cost) > approval_threshold

\* C11: a process_workload call that passes the cost gate with auto-deploy on
\* and a cost differential above approval_threshold starts a deployment for
\* the workload and queues no item.
C11_AutoDeployStartsDeployment ==
    [][\A w \in WorkloadIds, c \in CpuChoices :
          LET workload == [id |-> w, cpu_cores |-> c]
          IN  (process_workload(workload) /\ GatePasses(workload) /\ AutoDeployCondition)
              => /\ pending_workloads' = pending_workloads
                 /\ StartsDeployment
                 /\ LastItem(deployments').workload_id = w]_vars

\* C12: a process_workload call that passes the cost gate without the
\* auto-deploy condition appends one pending_approval item carrying the
\* recommended provider, both provider costs, the savings and the reason, and
\* starts no deployment.
C12_ManualApprovalQueuesItem ==
    [][\A w \in WorkloadIds, c \in CpuChoices :
          LET workload == [id |-> w, cpu_cores |-> c]
          IN  (process_workload(workload) /\ GatePasses(workload) /\ ~AutoDeployCondition)
              => /\ pending_workloads' =
                       Append(pending_workloads,
                              [workload_id |-> w,
                               estimated_savings |->
                                   Abs(aws_simulated_cost - alibaba_simulated_cost) * CostScale,
                               aws_cost |-> aws_simulated_cost,
                               alibaba_cost |-> alibaba_simulated_cost,
                               recommended_provider |->
                                   IF alibaba_simulated_cost < aws_simulated_cost
                                   THEN "alibaba" ELSE "aws",
                               status |-> "pending_approval",
                               reason |-> "manual_approval_required"])
                 /\ deployments' = deployments
                 /\ main_tf' = main_tf]_vars

\* an item queued with auto-deploy on, because the differential it records is
\* not above approval_threshold
C12_Witness ==
    /\ auto_deploy_enabled
    /\ pending_workloads # <<>>
    /\ LastItem(pending_workloads).reason = "manual_approval_required"
    /\ LastItem(pending_workloads).status = "pending_approval"
    /\ LastItem(pending_workloads).estimated_savings <= approval_threshold * CostScale
    /\ deployments = <<>>

\* C16: approve(workloadId, false) on an id whose first item is already rejected
\* changes nothing: no item, no decision, no deployment, no configuration.
FirstItemRejected(workload_id) ==
    \E i \in Items :
        /\ pending_workloads[i].workload_id = workload_id
        /\ pending_workloads[i].status = "rejected"
        /\ \A j \in 1..(i - 1) : pending_workloads[j].workload_id # workload_id

C16_RejectingRejectedIsNoOp ==
    [][\A w \in WorkloadIds, t \in BOOLEAN :
          (approve_workload(w, FALSE, t) /\ FirstItemRejected(w))
          => UNCHANGED vars]_vars

\* a rejected item followed by a pending one for the same id
C16_Witness ==
    /\ Len(pending_workloads) = 2
    /\ FirstItemRejected(pending_workloads[1].workload_id)
    /\ pending_workloads[2].workload_id = pending_workloads[1].workload_id
    /\ pending_workloads[2].status = "pending_approval"

\* C18: every step leaves the entries already in decision_history in place and
\* appends at most one; every placement that is computed without raising, at
\* submission or at deployment, appends exactly one.
PlacesAtDeployment(w) ==
    ~calculate_optimal_placement([id |-> w, cpu_cores |-> DeployCpuCores]).raised

C18_DecisionLogAppendOnly ==
    [][/\ Len(decision_history') \in {Len(decision_history), Len(decision_history) + 1}
       /\ SubSeq(decision_history', 1, Len(decision_history)) = decision_history
       /\ \A w \in WorkloadIds, c \in CpuChoices :
             LET workload == [id |-> w, cpu_cores |-> c]
             IN  (process_workload(workload) /\ ~calculate_optimal_placement(workload).raised)
                 => Len(decision_history') = Len(decision_history) + 1
       /\ \A d \in Deployments, r \in BOOLEAN :
             (deploy_start(d, r) /\ PlacesAtDeployment(deployments[d].workload_id))
             => Len(decision_history') = Len(decision_history) + 1
       /\ \A w \in WorkloadIds :
             (approve_workload(w, TRUE, FALSE) /\ StartsDeployment /\ PlacesAtDeployment(w))
             => Len(decision_history') = Len(decision_history) + 1]_vars

\* the decision of a submission followed by the decision of its deployment
C18_Witness ==
    /\ Len(decision_history) = 2
    /\ \E d \in Deployments : deployments[d].plan # NoPlan

\* ---------------------------------------- properties of calculate_optimal_placement
\* the snapshot the call was made with, and what it returned
LatestProviders == telemetry_data[Len(telemetry_data)].providers
Returned == placement_result.called /\ ~placement_result.raised
LexicalOrder == <<"alibaba", "aws">>
LexicallyBefore(p, q) ==
    \E i, j \in 1..Len(LexicalOrder) : i < j /\ LexicalOrder[i] = p /\ LexicalOrder[j] = q
FractionLeq(x, y) == x.num * y.den <= y.num * x.den

\* what a placement that returns has selected: one of the providers of the
\* snapshot, the scores compared are 0.7 x cost score + 0.3 x predictive score
\* of each provider, and no provider has a greater score than the winner
WinnerHasGreatestScore ==
    Returned =>
        LET decision == placement_result.decision
            winner == decision.selected_provider
        IN  /\ winner \in DOMAIN LatestProviders
            /\ winner = placement_result.provider
            /\ DOMAIN decision.combined_scores = DOMAIN LatestProviders
            /\ \A p \in DOMAIN LatestProviders :
                  /\ decision.combined_scores[p].den =
                        _calculate_workload_cost(placement_result.workload,
                                                 LatestProviders[p]) + CostScale
                  /\ decision.combined_scores[p].ml = decision.ml_predictions[p]
                  /\ ~ScoreGreater(decision.combined_scores[p],
                                   decision.combined_scores[winner])

\* C13: every placement over a non-empty snapshot returns a provider of the
\* snapshot whose combined score no other provider exceeds.
C13_EveryPlacementSelectsBest ==
    /\ (placement_result.called /\ DOMAIN LatestProviders # {}) => ~placement_result.raised
    /\ WinnerHasGreatestScore

\* C14: when another provider has the same combined score as the winner, the
\* winner has the lower estimated cost, or the same cost and the lexically
\* first name.
C14_TieGoesToLexicallyFirst ==
    Returned =>
        LET decision == placement_result.decision
            winner == decision.selected_provider
        IN  \A p \in DOMAIN decision.combined_scores \ {winner} :
               (/\ ~ScoreGreater(decision.combined_scores[p], decision.combined_scores[winner])
                /\ ~ScoreGreater(decision.combined_scores[winner], decision.combined_scores[p]))
               => \/ decision.all_costs[winner] < decision.all_costs[p]
                  \/ /\ decision.all_costs[winner] = decision.all_costs[p]
                     /\ LexicallyBefore(winner, p)

\* C15: for every provider of the snapshot and every workload, a higher
\* cost_per_hour with everything else as it is gives a combined score that is
\* not greater; the scores a placement records are these scores.
ScoreAt(workload, provider_data, cost_per_hour) ==
    combined_score(
        _calculate_workload_cost(workload,
                                 [provider_data EXCEPT !.cost_per_hour = cost_per_hour]),
        _predict_optimal_provider(workload, provider_data))

C15_ScoreMonotoneInCost ==
    /\ \A p \in DOMAIN LatestProviders, c \in ScoreCpuChoices, w \in WorkloadIds :
          \A lower \in ScoreCostChoices, higher \in ScoreCostChoices :
             lower < higher
             => ~ScoreGreater(ScoreAt([id |-> w, cpu_cores |-> c], LatestProviders[p], higher),
                              ScoreAt([id |-> w, cpu_cores |-> c], LatestProviders[p], lower))
    /\ Returned =>
          \A p \in DOMAIN LatestProviders :
             placement_result.decision.combined_scores[p] =
                ScoreAt(placement_result.workload, LatestProviders[p],
                        LatestProviders[p].cost_per_hour)

\* a placement whose loser would score strictly higher at a lower cost_per_hour
C15_Witness ==
    /\ Returned
    /\ \E p \in DOMAIN LatestProviders, lower \in ScoreCostChoices :
          /\ p # placement_result.provider
          /\ lower < LatestProviders[p].cost_per_hour
          /\ ScoreGreater(ScoreAt(placement_result.workload, LatestProviders[p], lower),
                          placement_result.decision.combined_scores[p])

\* C17: a placement called with no provider in the snapshot raises, and leaves
\* no decision, no item and no deployment.
C17_EmptySnapshotFailsWhole ==
    (placement_result.called /\ DOMAIN LatestProviders = {})
    => /\ placement_result.raised
       /\ placement_result.error = "ValueError"
       /\ decision_history = <<>>
       /\ pending_workloads = <<>>
       /\ deployments = <<>>

\* a call made with the empty snapshot
C17_Witness ==
    /\ placement_result.called
    /\ placement_result.raised
    /\ DOMAIN LatestProviders = {}

\* C19: every placement over a non-empty snapshot records a confidence in [0,1]
\* equal to 0.7 x costConfidence + 0.3 x predictive score of the winner, with
\* costConfidence the clamped (maxOtherCost - winnerCost) / winnerCost x 2, or
\* 0.5 without another provider.
C19_ConfidenceDefinedAndBounded ==
    (placement_result.called /\ DOMAIN LatestProviders # {})
    => /\ ~placement_result.raised
       /\ LET decision == placement_result.decision
              confidence == decision.confidence_score
              cost_conf == decision.cost_confidence
              winner_cost == decision.all_costs[decision.selected_provider]
              others == DOMAIN decision.all_costs \ {decision.selected_provider}
              max_other == CHOOSE v \in {decision.all_costs[p] : p \in others} :
                              \A p \in others : decision.all_costs[p] <= v
          IN  /\ 0 <= confidence.num
              /\ confidence.num <= confidence.den
              /\ confidence.den = 10 * 1000 * cost_conf.den
              /\ confidence.num = 7 * 1000 * cost_conf.num
                                  + 3 * decision.ml_predictions[decision.selected_provider]
                                      * cost_conf.den
              /\ IF others = {}
                 THEN cost_conf.num * 2 = cost_conf.den
                 ELSE IF max_other <= winner_cost
                 THEN cost_conf.num = 0
                 ELSE IF (max_other - winner_cost) * 2 >= winner_cost
                 THEN cost_conf.num = cost_conf.den
                 ELSE cost_conf.num * winner_cost
                         = (max_other - winner_cost) * 2 * cost_conf.den

\* C20: the estimated cost of every provider of the snapshot, for every
\* workload, is cost_per_hour x max(1, cpu_cores div 2), x 0.4 with spot,
\* x (1 - min(0.2, credits / 1000)); it is not negative and lies between 0.32
\* and 1.0 times the undiscounted cost; a placement records these costs.
C20_EstimatedCostFormula ==
    /\ \A p \in DOMAIN LatestProviders, c \in ScoreCpuChoices, w \in WorkloadIds :
          LET data == LatestProviders[p]
              cost == _calculate_workload_cost([id |-> w, cpu_cores |-> c], data)
              instances == IF c \div 2 >= 1 THEN c \div 2 ELSE 1
              undiscounted == data.cost_per_hour * instances
              credits_off == IF data.credits_available >= 200
                             THEN 200 ELSE data.credits_available
          IN  /\ cost = undiscounted * (IF data.spot_available THEN 4 ELSE 10)
                                     * (1000 - credits_off)
              /\ cost >= 0
              /\ 3200 * undiscounted <= cost
              /\ cost <= 10000 * undiscounted
    /\ Returned =>
          \A p \in DOMAIN LatestProviders :
             placement_result.decision.all_costs[p] =
                _calculate_workload_cost(placement_result.workload, LatestProviders[p])

\* a placement that records a provider's cost at both discounts in full
C20_Witness ==
    /\ Returned
    /\ \E p \in DOMAIN LatestProviders :
          /\ LatestProviders[p].spot_available
          /\ LatestProviders[p].credits_available > 1000
          /\ LatestProviders[p].cost_per_hour > 0
          /\ placement_result.decision.all_costs[p] =
                3200 * LatestProviders[p].cost_per_hour
                     * required_instances(placement_result.workload)

\* C21: every predictive score is within [0,1] (0..1000 thousandths); without
\* a model, with an unfitted one, and when the prediction raises, it is the
\* neutral 0.5; a placement records these scores, and a placement that raises
\* does so for the empty snapshot or the zero cost, not for the predictor.
PredictionFails(cpu_cores) ==
    \/ ml_model.kind # "trained"
    \/ Len(ml_model.predict_proba[cpu_cores]) < 2

C21_PredictionNeutralOnFailure ==
    /\ \A p \in DOMAIN LatestProviders, c \in ScoreCpuChoices, w \in WorkloadIds :
          LET score == _predict_optimal_provider([id |-> w, cpu_cores |-> c],
                                                 LatestProviders[p])
          IN  /\ 0 <= score
              /\ score <= 1000
              /\ PredictionFails(c) => score = 500
    /\ Returned =>
          /\ \A p \in DOMAIN LatestProviders :
                placement_result.decision.ml_predictions[p] =
                   _predict_optimal_provider(placement_result.workload, LatestProviders[p])
          /\ placement_result.decision.ml_confidence =
                placement_result.decision.ml_predictions[placement_result.provider]
    /\ (placement_result.called /\ placement_result.raised) =>
          \/ placement_result.error = "ValueError" /\ DOMAIN LatestProviders = {}
          \/ /\ placement_result.error = "ZeroDivisionError"
             /\ \E p \in DOMAIN LatestProviders : LatestProviders[p].cost_per_hour = 0

\* a placement by a fitted model whose prediction raised, and one whose
\* prediction is the extreme 1.0
C21_Witness ==
    /\ Returned
    /\ ml_model.kind = "trained"
    /\ PredictionFails(placement_result.workload.cpu_cores)
    /\ placement_result.decision.ml_confidence = 500
    /\ \E c \in ScoreCpuChoices :
          _predict_optimal_provider([id |-> "w1", cpu_cores |-> c],
                                    LatestProviders[placement_result.provider]) = 1000

\* C22: in a placement between two providers of equal estimated cost where the
\* predictor scores above 0.5, the winner is the provider the predictor scores
\* above 0.5 and above the other provider.
C22_PredictionBreaksCostTie ==
    (/\ Returned
     /\ DOMAIN LatestProviders = Providers
     /\ \A p, q \in Providers :
           placement_result.decision.all_costs[p] = placement_result.decision.all_costs[q]
     /\ \E p \in Providers : placement_result.decision.ml_predictions[p] > 500)
    => LET predictions == placement_result.decision.ml_predictions
           winner == placement_result.provider
       IN  /\ predictions[winner] > 500
           /\ \A p \in Providers \ {winner} : predictions[p] < predictions[winner]

\* ----------------------------------------------- properties of the drift monitor
\* a workload that was approved and whose deployment applied, on the provider
\* its item names
Deployed(i) ==
    /\ pending_workloads[i].status = "approved"
    /\ \E d \in Deployments :
          /\ deployments[d].item = i
          /\ deployments[d].pc = "done"
          /\ deployments[d].apply_result = "success"
          /\ deployments[d].plan.provider = pending_workloads[i].recommended_provider

\* C23: a monitor iteration over a deployed workload whose provider costs more
\* than the other one by more than the switch threshold appends an item with
\* status pending_switch_approval for that workload, naming the other provider
\* as the new provider.
C23_DriftCreatesSwitchRequest ==
    [][\A i \in Items :
          (monitor_loop /\ Deployed(i) /\ Drifted(pending_workloads[i]))
          => \E j \in (Len(pending_workloads) + 1)..Len(pending_workloads') :
                /\ pending_workloads'[j].workload_id = pending_workloads[i].workload_id
                /\ pending_workloads'[j].status = "pending_switch_approval"
                /\ pending_workloads'[j].new_provider =
                      OtherProvider(pending_workloads[i].recommended_provider)]_vars

\* C24: an iteration of the drift monitor starts no deployment, builds no plan,
\* writes no configuration, appends no decision and leaves every existing item
\* as it is; the configuration changes only in a step of a deployment that an
\* approve_workload(id, true) call started.
C24_MonitorNeverSwitches ==
    [][/\ monitor_loop
          => /\ UNCHANGED <<deployments, main_tf, decision_history>>
             /\ Len(pending_workloads') >= Len(pending_workloads)
             /\ \A i \in Items : pending_workloads'[i] = pending_workloads[i]
       /\ main_tf' # main_tf
          => \E d \in 1..Len(deployments') :
                /\ deployments'[d].item \in Items
                /\ deployments'[d].plan # NoPlan
                /\ deployments'[d].plan.workload_id =
                      pending_workloads[deployments'[d].item].workload_id
                /\ d \in Deployments => deployments[d].pc = "queued"]_vars

\* the monitor has iterated, a deployed workload's provider has become the
\* dearer one, and the configuration still runs it there
C24_Witness ==
    /\ monitored >= 1
    /\ \E i \in Items :
          /\ Deployed(i)
          /\ Drifted(pending_workloads[i])
          /\ main_tf[pending_workloads[i].recommended_provider] >= 1
          /\ main_tf[OtherProvider(pending_workloads[i].recommended_provider)] = 0
    /\ \A i \in Items : pending_workloads[i].status # "pending_switch_approval"

\* C25: with the costs drifted, the monitor having iterated, and no approval
\* made since, approve_workload(id, true) for the deployed workload moves an item
\* of the workload from pending_switch_approval to approved and starts a
\* deployment for it, which targets the provider that item names as new.
C25_ApprovedSwitchRestartsDeployment ==
    [][\A w \in WorkloadIds, t \in BOOLEAN :
          (/\ approve_workload(w, TRUE, t)
           /\ monitored >= 1
           /\ Len(deployments) = 1
           /\ \E i \in Items : /\ pending_workloads[i].workload_id = w
                                /\ Deployed(i)
                                /\ Drifted(pending_workloads[i]))
          => \E j \in Items :
                /\ pending_workloads[j].workload_id = w
                /\ pending_workloads[j].status = "pending_switch_approval"
                /\ pending_workloads'[j].status = "approved"
                /\ StartsDeployment
                /\ LastItem(deployments').workload_id = w
                /\ (LastItem(deployments').plan # NoPlan
                     => LastItem(deployments').plan.provider =
                           pending_workloads[j].new_provider)]_vars

\* -------------------------------------------- properties of the telemetry loop
\* C26: after every iteration of _collect_telemetry the history holds at most
\* 1000 records; an iteration that fetched a record leaves it last, with the
\* records before it in the order they had and only the oldest one dropped,
\* and an iteration whose fetch failed leaves the history as it was.
C26_HistoryKeepsLatestThousand ==
    [][\A fetch_ok \in BOOLEAN :
          _collect_telemetry(fetch_ok)
          => LET old == telemetry_data
                 new == telemetry_data'
                 dropped == Len(old) + 1 - Len(new)
             IN  /\ Len(new) <= 1000
                 /\ fetch_ok =>
                       /\ Len(new) = (IF Len(old) + 1 <= 1000 THEN Len(old) + 1 ELSE 1000)
                       /\ new[Len(new)].providers["aws"].cost_per_hour = aws_simulated_cost
                       /\ new[Len(new)].providers["alibaba"].cost_per_hour
                             = alibaba_simulated_cost
                       /\ \A i \in 1..Len(old) : new[Len(new)].timestamp > old[i].timestamp
                       /\ \A i \in 1..(Len(new) - 1) : new[i] = old[i + dropped]
                 /\ ~fetch_ok => new = old]_vars

\* a full history whose oldest record has been dropped for a newer one
C26_Witness ==
    /\ Len(telemetry_data) = 1000
    /\ telemetry_data[1].timestamp = 2
    /\ telemetry_data[1000].timestamp = 1001

\* ------------------------------------- properties of the concurrent operations
\* C27: when approve_workload runs concurrently with a submission for the same
\* workload, an iteration of the monitor and the deployment thread it starts,
\* every interleaving of their steps ends with the approval items and the
\* decision log as some order of the whole operations leaves them: no append
\* and no status is lost.
C27_InterleavingsAreSerializable ==
    AllOperationsDone =>
        [pending |-> pending_workloads, decisions |-> decision_history] \in SerialOutcomes

\* approve_workload has set the status and not yet started the thread while the
\* submission has appended its decision and not yet its item
C27_Witness ==
    /\ threads.followed
    /\ threads.approve.pc = "start"
    /\ threads.submit.pc = "queue"
    /\ threads.monitor.pc = "scan"
    /\ threads.monitor.k = 2

\* ------------------------------------------------- properties of the change plan
\* the four resources a directive names
PlanResources(change) ==
    <<change.load_balancer, change.target_group, change.listener, change.instances>>

\* max(1, cpu_cores div 2), written out
ExpectedInstances(cpu_cores) == IF cpu_cores \div 2 >= 1 THEN cpu_cores \div 2 ELSE 1

PlanShape(plan, cpu_cores) ==
    /\ DOMAIN plan.changes = Providers
    /\ \A p \in Providers :
          IF p = plan.provider
          THEN /\ plan.changes[p].desired_capacity = ExpectedInstances(cpu_cores)
               /\ plan.changes[p].min_capacity = ExpectedInstances(cpu_cores)
               /\ plan.changes[p].max_capacity = 2 * ExpectedInstances(cpu_cores)
               /\ PlanResources(plan.changes[p]) = <<"create", "create", "create", "create">>
          ELSE /\ plan.changes[p].desired_capacity = 0
               /\ plan.changes[p].min_capacity = 0
               /\ plan.changes[p].max_capacity = 0
               /\ PlanResources(plan.changes[p]) =
                     <<"destroy", "destroy", "destroy", "destroy">>

\* C28: in every plan of generate_terraform_changes the target provider has
\* desired = min = max(1, cpu_cores div 2) and max = twice that, with create
\* directives for load balancer, target group, listener and instances; every
\* other provider has desired, min and max 0 with the destroy directives.  This
\* holds for every workload and target, and for the plan of every deployment.
C28_PlanScalesTargetAndZeroesOthers ==
    /\ \A w \in WorkloadIds, c \in CpuChoices \cup ScoreCpuChoices \cup {DeployCpuCores},
          p \in Providers :
          LET plan == generate_terraform_changes([id |-> w, cpu_cores |-> c], p,
                                                 _get_current_provider_states[p].region)
          IN  plan.provider = p /\ PlanShape(plan, c)
    /\ \A d \in Deployments :
          deployments[d].plan # NoPlan => PlanShape(deployments[d].plan, DeployCpuCores)

\* a finished deployment whose plan gave aws two instances with room for four
C28_Witness ==
    \E d \in Deployments :
        /\ deployments[d].pc = "done"
        /\ deployments[d].plan # NoPlan
        /\ deployments[d].plan.provider = "aws"
        /\ deployments[d].plan.changes["aws"].desired_capacity = 2
        /\ deployments[d].plan.changes["aws"].max_capacity = 4
        /\ deployments[d].plan.changes["alibaba"].max_capacity = 0

\* ------------------------------------------ properties of a successful apply
\* C29: a terraform apply that returns 0 is followed by the success metric
\* first and the success notification after it, and the deployment ends with
\* no rollback, whatever the steps after the apply do.
C29_SuccessfulApplyNeverRollsBack ==
    [][\A d \in Deployments :
          deploy_apply(d, TRUE)
          => /\ deployments'[d].apply_result = "success"
             /\ Len(deployments'[d].log) > Len(deployments[d].log)
             /\ deployments'[d].log[Len(deployments[d].log) + 1] = "metric_success"
             /\ deployments'[d].pc = "done"
             /\ deployments'[d].rollbacks = 0]_vars

\* ------------------------------------------------ properties of the two loops
\* C30: an iteration of the telemetry loop whose fetch raised, and an iteration
\* of the monitor loop in which a cost check raised, is followed by a further
\* iteration of the same loop; neither task ends.
C30_LoopsSurviveFailures ==
    /\ [](threads.collector.pc # "ended" /\ threads.monitor.pc # "ended")
    /\ \A n \in 1..(MaxLoopIterations - 1) :
          /\ (collected = n /\ threads.collector.failed) ~> (collected > n)
          /\ (monitored = n /\ threads.monitor.failed) ~> (monitored > n)

\* every iteration of either loop has failed so far, and each loop has run more
\* than one
C30_Witness ==
    /\ threads # NoThreads
    /\ collected >= 2
    /\ telemetry_data = <<>>
    /\ threads.collector.failed
    /\ monitored >= 2
    /\ threads.monitor.failed

\* ---------------------------------------------- properties of the background tasks
\* C31: at any time there is at most one _collect_telemetry task, one
\* _update_cost_data task and one _continuous_monitoring task.
C31_OneTaskPerActivity ==
    \A a \in Activities : threads.tasks[a] <= 1

\* C32: once a shutdown is requested, each of the three loops eventually stops.
C32_LoopsStopAfterShutdown ==
    threads.stop_requested
    ~> (/\ threads.collector.pc = "ended"
        /\ threads.cost.pc = "ended"
        /\ threads.monitor.pc = "ended")

\* ------------------------------------------------- properties of the notifications
\* C33: no call of process_workload lets a failure of send_alert reach its
\* caller, also when monitoring failed to initialise, and the item it queued
\* stays queued.
C33_AlertFailureNeverEscapes ==
    [][\A w \in WorkloadIds, c \in CpuChoices :
          LET workload == [id |-> w, cpu_cores |-> c]
          IN  process_workload(workload)
              => /\ ~process_workload_raises(workload)
                 /\ Len(pending_workloads') >= Len(pending_workloads)]_vars

\* ------------------------------------------------------ properties of the metrics
\* C34: process_workload reaches the same decision log, approval items and
\* deployments whether its metric calls succeed or raise.
C34_MetricsArePurelyObservational ==
    \A w \in WorkloadIds, c \in CpuChoices, metrics \in MetricsModes :
        process_workload_outcome([id |-> w, cpu_cores |-> c], metrics)
            = process_workload_outcome([id |-> w, cpu_cores |-> c], "recorded")

\* ------------------------------------------- properties of the approval gate
\* a deployment that approve_workload started for an item of its workload
StartedByApproval(d) ==
    /\ deployments[d].item \in Items
    /\ pending_workloads[deployments[d].item].workload_id = deployments[d].workload_id

\* C35: with auto_deploy_enabled false a process_workload call starts no
\* deployment and leaves main.tf alone, and every step that starts or advances
\* a deployment, builds a plan or rewrites main.tf is an
\* approve_workload(id, True) that found an item for the id, or a step of a
\* deployment started by such an approval.
C35_NoDeploymentBeforeApproval ==
    [][/\ \A w \in WorkloadIds, c \in CpuChoices :
             (~auto_deploy_enabled /\ process_workload([id |-> w, cpu_cores |-> c]))
             => (deployments' = deployments /\ main_tf' = main_tf)
       /\ (deployments' # deployments \/ main_tf' # main_tf)
          => \/ \E w \in WorkloadIds, t \in BOOLEAN :
                   FirstMatch(w) # 0 /\ approve_workload(w, TRUE, t)
             \/ \E d \in Deployments : StartedByApproval(d) /\ DeployStep(d)]_vars

\* a workload queued by process_workload with auto-deploy off and not yet
\* approved: nothing is deployed and main.tf is as it was at the start
C35_Witness ==
    /\ ~auto_deploy_enabled
    /\ \E i \in Items : pending_workloads[i].status = "pending_approval"
    /\ \A i \in Items : pending_workloads[i].status # "approved"
    /\ decision_history # <<>>
    /\ deployments = <<>>
    /\ \A p \in Providers : main_tf[p] = 0

\* C36: the provider scaled up by a deployment that approve_workload started
\* is the recommended_provider of the item it was started for.
C36_DeploysRecommendedProvider ==
    \A d \in Deployments :
        (StartedByApproval(d) /\ deployments[d].plan # NoPlan)
        => /\ deployments[d].plan.provider
                = pending_workloads[deployments[d].item].recommended_provider
           /\ deployments[d].plan.changes[
                  pending_workloads[deployments[d].item].recommended_provider].action
                = "scale_up"

\* ----------------------------------------------- properties of the reconciliation
\* a deployment between its rewrite of main.tf and the end of its terraform
\* apply, or between a failure and the end of its rollback
Reconciling(d) == deployments[d].pc \in {"apply", "rollback"}

\* C37: at most one deployment at a time is between its rewrite of main.tf and
\* the end of its apply or rollback.
C37_OneReconciliationAtATime ==
    Cardinality({d \in Deployments : Reconciling(d)}) <= 1

\* ------------------------------------------- properties of the order in a submission
\* decisions appended since the operations started, less the one of the
\* deployment thread
SubmissionDecisions ==
    Len(decision_history) - Len(threads.initial.decisions)
        - (IF threads.deploy.pc = "done" THEN 1 ELSE 0)

\* C38: the item of a submission is in pending_workloads only when the decision
\* of that submission is in the decision log: while process_workload has not
\* appended its decision there is no item of it, and the step that appends the
\* item finds the decision logged.
C38_DecisionPrecedesApprovalItem ==
    /\ Len(pending_workloads) > Len(threads.initial.pending)
          => (threads.submit.pc = "done" /\ SubmissionDecisions = 1)
    /\ threads.submit.pc = "queue" => SubmissionDecisions = 1
    /\ threads.submit.pc = "place"
          => (SubmissionDecisions = 0
              /\ Len(pending_workloads) = Len(threads.initial.pending))

\* the submission has logged its decision and queued its item while
\* approve_workload has not yet looked at the list
C38_Witness ==
    /\ threads.followed
    /\ threads.submit.pc = "done"
    /\ threads.approve.pc = "scan"
    /\ Len(pending_workloads) = Len(threads.initial.pending) + 1
    /\ Len(decision_history) = Len(threads.initial.decisions) + 1
    /\ decision_history[Len(decision_history)].workload_id
          = pending_workloads[Len(pending_workloads)].workload_id

\* ----------------------------------------- properties of the placement by cost
\* C39: in every placement that returns, all providers of the snapshot have
\* the same predictive score, and the selected provider has the least estimated
\* cost among them, which is the estimated cost recorded in the decision.
C39_WinnerHasMinimumCost ==
    Returned =>
        LET decision == placement_result.decision
            winner == placement_result.provider
        IN  /\ \A p, q \in DOMAIN LatestProviders :
                  decision.ml_predictions[p] = decision.ml_predictions[q]
            /\ decision.estimated_cost = decision.all_costs[winner]
            /\ \A p \in DOMAIN LatestProviders :
                  decision.all_costs[winner] <= decision.all_costs[p]

\* a fitted model that gives alibaba probability 1.0, and a placement that
\* selected the strictly cheaper one of two providers
C39_Witness ==
    /\ Returned
    /\ ml_model.kind = "trained"
    /\ placement_result.decision.ml_confidence = 1000
    /\ DOMAIN LatestProviders = Providers
    /\ \E p \in Providers :
          /\ p # placement_result.provider
          /\ placement_result.decision.all_costs[placement_result.provider]
                < placement_result.decision.all_costs[p]

\* ------------------------------- properties of a deployment's workload shape
\* the plan deployment d holds after a step that gave it one, NoPlan otherwise
PlanGained(d) ==
    IF /\ d \in DOMAIN deployments'
       /\ deployments'[d].plan # NoPlan
       /\ (d \in Deployments => deployments[d].plan = NoPlan)
    THEN deployments'[d].plan
    ELSE NoPlan

====
